---- MODULE Spec2Model ----
(***************************************************************************)
(* ask-my-health: the SQL guard (healthllm/sql_guard.py), the template     *)
(* router (healthllm/sqlgen_templates.py), the model-backed provider       *)
(* (healthllm/sqlgen_hf.py) and the orchestrator answer_steps_question     *)
(* (healthllm/qa.py) with the store it talks to (healthllm/db.py).         *)
(*                                                                         *)
(* Text.  A Python str is modelled as a sequence of lexemes.  A lexeme is  *)
(* a TLA+ string standing for exactly that run of characters: " " is a run *)
(* of whitespace, "[fence]" the three backticks of a code fence, ";" ","   *)
(* "(" ")" "*" ... and the single quote single punctuation characters,     *)
(* and every other lexeme is a word (a maximal run                         *)
(* of [A-Za-z0-9_.]).  Two words are never adjacent in a modelled text, so *)
(* a word lexeme is a whole \b...\b word of the text and every substring   *)
(* made of letters lies inside one lexeme.                                 *)
(***************************************************************************)
EXTENDS Integers, Sequences, FiniteSets, TLC

VARIABLES
    \* the environment of a call
    HF_TOKEN,           \* os.getenv("HF_TOKEN")
    current_date,       \* the date of the day, as the store's current_date gives it
    db_exists,          \* whether the database file at db_path exists
    store,              \* the database: table name -> set of rows
    store_before,       \* the database when the call started
    \* one call of answer_steps_question
    pc,                 \* where the call is
    kwargs,             \* the keyword arguments the caller passed
    question,
    force_templates,
    used_provider,
    invoked,            \* the providers invoked so far, in order
    candidate,          \* the provider's text: sql before validate_sql
    guard,              \* what validate_sql did in this call
    sql,                \* sql after validate_sql
    con,                \* the connection: "none", "open" or "closed"
    statements,         \* the statements sent over the connection, in order
    df,
    scalar,
    error,              \* the exception that left the call ("" if none)
    \* generate_sql_hf
    hf_url,             \* index of the candidate url tried next
    hf_requests,        \* requests.post calls made
    hf_statuses,        \* the status codes of the responses received, in order
    \* validate_sql applied on its own
    g_phase, g_sql, g_policy, g_first, g_second,
    \* generate_sql_from_templates applied on its own
    r_phase, r_question, r_match, r_guard,
    \* one call of ingest_steps_export_xml
    x_pc,               \* where the call is
    x_records,          \* the Record elements of the export, in document order
    x_next,             \* index of the record the loop reads next
    overwrite,
    totals,             \* day -> sum of the values, in halves
    records_seen,
    step_records_seen,
    x_df,               \* the rows of df
    x_result,           \* the IngestResult returned
    x_error,            \* the exception that left the call ("" if none)
    \* the session of the UI
    u_pc,               \* where the script run is
    has_data,           \* _check_data_availability(db_path)[0] of this run
    messages,           \* st.session_state.messages
    results,            \* st.session_state.results
    rendered            \* what the last run's history loop showed, per message

gvars == <<g_phase, g_sql, g_policy, g_first, g_second>>
rvars == <<r_phase, r_question, r_match, r_guard>>
xvars == <<x_pc, x_records, x_next, overwrite, totals, records_seen, step_records_seen,
           x_df, x_result, x_error>>
uvars == <<u_pc, has_data, messages, results, rendered>>
envvars == <<HF_TOKEN, current_date, db_exists, store, store_before>>
callvars == <<pc, kwargs, question, force_templates, used_provider, invoked, candidate,
              guard, sql, con, statements, df, scalar, error, hf_url, hf_requests,
              hf_statuses>>
vars == <<envvars, callvars, gvars, rvars, xvars, uvars, xvars, uvars>>

----------------------------------------------------------------------------
(* Lexeme classes *)

Ws == " "
Fence == "[fence]"
Semi == ";"

\* Single non-word, non-space characters that occur in the modelled texts.
PunctLexemes ==
    {Fence, Semi, ",", "(", ")", "'", "*", "+", "-", "<", ">", "=", "%", "?", "{}",
     "{prompt head}", "{prompt tail}"}

\* Words that start with a digit: \d+ matches them, [a-zA-Z_][\w\.]* does not.
\* Bound: the largest number written in a modelled text.
MaxNumber == 500

NumberLexemes == {ToString(n) : n \in 0..MaxNumber}

IsWs(x) == x = Ws

\* A lexeme the regex group ([a-zA-Z_][\w\.]*) matches, as a whole.
IsIdent(x) == x \notin PunctLexemes /\ x # Ws /\ x \notin NumberLexemes

\* str.upper() on a lexeme.  Listed: the lexemes of the vocabulary that hold a
\* lower-case letter and whose upper case is compared with a keyword somewhere;
\* the upper case of any other lexeme matches none of the compared words.
upper(x) ==
    CASE x = "select" -> "SELECT"
      [] x = "with" -> "WITH"
      [] x = "from" -> "FROM"
      [] x = "join" -> "JOIN"
      [] x = "as" -> "AS"
      [] x = "sql" -> "SQL"
      [] x = "delete" -> "DELETE"
      [] x = "Drop" -> "DROP"
      [] x = "updated" -> "UPDATED"
      [] x = "created_at" -> "CREATED_AT"
      [] OTHER -> x

\* str.lower() of the last dot segment of an identifier: raw.split(".")[-1].lower()
last_segment_lower(x) ==
    CASE x = "main.users" -> "users"
      [] x = "main.daily_steps" -> "daily_steps"
      [] x = "Daily_Steps" -> "daily_steps"
      [] x = "DAILY_STEPS" -> "daily_steps"
      [] x = "USERS" -> "users"
      [] x = "SELECT" -> "select"
      [] x = "WITH" -> "with"
      [] x = "FROM" -> "from"
      [] x = "JOIN" -> "join"
      [] x = "AS" -> "as"
      [] x = "WHERE" -> "where"
      [] x = "DELETE" -> "delete"
      [] x = "Drop" -> "drop"
      [] OTHER -> x

\* sql_guard.py:16-26
DISALLOWED_KEYWORDS ==
    <<"INSERT", "UPDATE", "DELETE", "CREATE", "DROP", "ATTACH", "COPY", "ALTER", "PRAGMA">>

\* `kw in u` for an upper-cased lexeme u: the keywords that are substrings of it.
KeywordsIn(u) ==
    CASE u = "INSERT" -> {"INSERT"}
      [] u = "UPDATE" -> {"UPDATE"}
      [] u = "UPDATED" -> {"UPDATE"}
      [] u = "DELETE" -> {"DELETE"}
      [] u = "CREATE" -> {"CREATE"}
      [] u = "CREATED_AT" -> {"CREATE"}
      [] u = "DROP" -> {"DROP"}
      [] u = "ATTACH" -> {"ATTACH"}
      [] u = "COPY" -> {"COPY"}
      [] u = "ALTER" -> {"ALTER"}
      [] u = "PRAGMA" -> {"PRAGMA"}
      [] OTHER -> {}

\* sql_guard.py:29-36
SQL_FUNCTIONS_AND_CONSTANTS ==
    {"current_date", "current_time", "current_timestamp", "now", "today", "date"}

----------------------------------------------------------------------------
(* str helpers *)

RECURSIVE lstrip(_)
lstrip(s) == IF s # <<>> /\ IsWs(Head(s)) THEN lstrip(Tail(s)) ELSE s

RECURSIVE rstrip(_)
rstrip(s) == IF s # <<>> /\ IsWs(s[Len(s)]) THEN rstrip(SubSeq(s, 1, Len(s) - 1)) ELSE s

strip(s) == rstrip(lstrip(s))

\* The first position >= i of s that holds no whitespace (Len(s)+1 if none): \s*
RECURSIVE SkipWs(_, _)
SkipWs(s, i) == IF i <= Len(s) /\ IsWs(s[i]) THEN SkipWs(s, i + 1) ELSE i

\* s.upper().startswith(w) for a stripped text s and a keyword w: the first lexeme
\* is the word w in some letter case.
StartsWithWord(s, w) == s # <<>> /\ upper(Head(s)) = w

\* The text of a token sequence: its tokens separated by one run of whitespace.
RECURSIVE Spaced(_)
Spaced(t) ==
    IF Len(t) <= 1 THEN t ELSE <<Head(t), Ws>> \o Spaced(Tail(t))

----------------------------------------------------------------------------
(* healthllm/sql_guard.py *)

\* _normalize_sql with the rstrip of its last line left out; C10 must tell it apart
normalize_sql_no_final_strip(text) ==
    LET s == strip(text) IN
    IF s # <<>> /\ Head(s) = Fence
    THEN LET a == IF Len(s) >= 2 /\ upper(s[2]) = "SQL"
                  THEN SubSeq(s, SkipWs(s, 3), Len(s)) ELSE s
             b == IF a # <<>> /\ Head(a) = Fence THEN Tail(a) ELSE a
             c == IF b # <<>> /\ b[Len(b)] = Fence THEN SubSeq(b, 1, Len(b) - 1) ELSE b
         IN  lstrip(c)
    ELSE s

_normalize_sql(text) ==
    LET s == strip(text) IN
    IF s # <<>> /\ Head(s) = Fence                       \* s.lower().startswith(fence)
    THEN LET a == IF Len(s) >= 2 /\ upper(s[2]) = "SQL"  \* re.sub(fence + "sql\s*" at ^)
                  THEN SubSeq(s, SkipWs(s, 3), Len(s)) ELSE s
             b == IF a # <<>> /\ Head(a) = Fence THEN Tail(a) ELSE a              \* re.sub(fence at ^)
             c == IF b # <<>> /\ b[Len(b)] = Fence THEN SubSeq(b, 1, Len(b) - 1) ELSE b  \* re.sub(fence at $)
         IN  strip(c)
    ELSE s

\* _TABLE_REF_RE.finditer(text) from position i on: the identifiers captured by
\* \b(?:FROM|JOIN)\s+([a-zA-Z_][\w\.]*), matches taken left to right without overlap.
RECURSIVE TableRefMatches(_, _)
TableRefMatches(s, i) ==
    IF i > Len(s) THEN {}
    ELSE LET j == SkipWs(s, i + 1) IN
         IF /\ upper(s[i]) \in {"FROM", "JOIN"}
            /\ j > i + 1
            /\ j <= Len(s)
            /\ IsIdent(s[j])
         THEN {s[j]} \cup TableRefMatches(s, j + 1)
         ELSE TableRefMatches(s, i + 1)

_find_tables(text) ==
    {last_segment_lower(raw) : raw \in TableRefMatches(text, 1)} \ SQL_FUNCTIONS_AND_CONSTANTS

\* _CTE_NAME_RE.finditer(text) from position i on: \bWITH\s+([a-zA-Z_][\w\.]*)\s+AS
\* (no \b after AS: any word that starts with AS ends the match).
StartsWithAS(x) == upper(x) \in {"AS", "ASC"}

RECURSIVE CteNameMatches(_, _)
CteNameMatches(s, i) ==
    IF i > Len(s) THEN {}
    ELSE LET j == SkipWs(s, i + 1)
             k == SkipWs(s, j + 1)
         IN
         IF /\ upper(s[i]) = "WITH"
            /\ j > i + 1 /\ j <= Len(s) /\ IsIdent(s[j])
            /\ k > j + 1 /\ k <= Len(s) /\ StartsWithAS(s[k])
         THEN {s[j]} \cup CteNameMatches(s, k + 1)
         ELSE CteNameMatches(s, i + 1)

\* upper_sql.find("SELECT", upper_sql.find("WITH") + 4) for a text that starts with
\* WITH, as a lexeme position: the first lexeme after the leading WITH that holds
\* SELECT (0 if there is none, where find returns -1).
RECURSIVE FindSelect(_, _)
FindSelect(s, i) ==
    IF i > Len(s) THEN 0
    ELSE IF upper(s[i]) = "SELECT" THEN i
    ELSE FindSelect(s, i + 1)

\* cte_pattern.finditer(with_clause): (?:^|\s|,)\s*([a-zA-Z_][\w\.]*)\s+AS\s*\(
\* A match starts at an identifier at the start of the clause or right after
\* whitespace or a comma, and two matches cannot share a lexeme.
CtePatternMatches(w) ==
    {w[j] : j \in {j \in 1..Len(w) :
        LET k == SkipWs(w, j + 1)
            p == SkipWs(w, k + 1)
        IN  /\ IsIdent(w[j])
            /\ (j = 1 \/ IsWs(w[j - 1]) \/ w[j - 1] = ",")
            /\ k > j + 1 /\ k <= Len(w) /\ upper(w[k]) = "AS"
            /\ p <= Len(w) /\ w[p] = "("}}

_find_cte_names(text) ==
    LET first == {last_segment_lower(raw) : raw \in CteNameMatches(text, 1)}
        with_end == FindSelect(text, 2)
        more == IF StartsWithWord(strip(text), "WITH") /\ with_end > 0
                THEN {last_segment_lower(raw) :
                        raw \in CtePatternMatches(SubSeq(text, 1, with_end - 1))}
                ELSE {}
    IN  first \cup more

\* The outcomes of validate_sql: the text it returns, or the UnsafeSQLError it
\* raises, named by the message it carries.
Accepted(text) == [ok |-> TRUE, sql |-> text, kind |-> "", detail |-> {}]
Rejected(kind, detail) == [ok |-> FALSE, sql |-> <<>>, kind |-> kind, detail |-> detail]

\* validate_sql not called yet
NoOutcome == [ok |-> FALSE, sql |-> <<>>, kind |-> "(not called)", detail |-> {}]

\* The first keyword of DISALLOWED_KEYWORDS, in tuple order, that occurs in the text
\* (0 if none): for kw in DISALLOWED_KEYWORDS: if kw in upper
FirstKeywordCaseSensitive(s) ==
    LET hits == {n \in 1..Len(DISALLOWED_KEYWORDS) :
                    \E i \in 1..Len(s) : DISALLOWED_KEYWORDS[n] \in KeywordsIn(s[i])}
    IN  IF hits = {} THEN 0 ELSE CHOOSE n \in hits : \A m \in hits : n <= m

FirstKeyword(s) ==
    LET hits == {n \in 1..Len(DISALLOWED_KEYWORDS) :
                    \E i \in 1..Len(s) : DISALLOWED_KEYWORDS[n] \in KeywordsIn(upper(s[i]))}
    IN  IF hits = {} THEN 0 ELSE CHOOSE n \in hits : \A m \in hits : n <= m

\* ";" in stripped[:-2]: a variant that overlooks a semicolon right before the last
\* character; C13 must tell it apart
InteriorSemicolonBeforeLastTwo(stripped) ==
    \E i \in 1..(Len(stripped) - 2) : stripped[i] = Semi

\* ";" in stripped[:-1]
InteriorSemicolon(stripped) ==
    \E i \in 1..(Len(stripped) - 1) : stripped[i] = Semi

\* A variant that reports one non-allowed table only; C12 must tell it apart
UnknownFirstOnly(tables, allowed) ==
    IF tables \ allowed = {} THEN {} ELSE {CHOOSE t \in tables \ allowed : TRUE}

\* unknown = sorted(t for t in tables if t not in allowed)
Unknown(tables, allowed) == tables \ allowed

\* validate_sql with the keyword check moved before the SELECT/WITH check; C14 must
\* tell it apart
validate_sql_keyword_first(raw, policy) ==
    LET text == _normalize_sql(raw)
        stripped == strip(text)
        body == IF stripped # <<>> /\ stripped[Len(stripped)] = Semi
                THEN strip(SubSeq(stripped, 1, Len(stripped) - 1))
                ELSE text
        kw == FirstKeyword(text)
        tables == _find_tables(body)
        allowed == policy \cup _find_cte_names(body)
        unknown == Unknown(tables, allowed)
    IN  IF text = <<>> THEN Rejected("Empty SQL.", {})
        ELSE IF kw # 0
        THEN Rejected("Disallowed keyword found", {DISALLOWED_KEYWORDS[kw]})
        ELSE IF ~StartsWithWord(text, "SELECT") /\ ~StartsWithWord(text, "WITH")
        THEN Rejected("Only SELECT queries are allowed.", {})
        ELSE IF InteriorSemicolon(stripped)
        THEN Rejected("Only a single SQL statement is allowed.", {})
        ELSE IF tables = {}
        THEN Rejected("No table referenced.", {})
        ELSE IF unknown # {}
        THEN Rejected("Query references non-allowed tables", unknown)
        ELSE Accepted(body)

validate_sql(raw, policy) ==
    LET text == _normalize_sql(raw)
        stripped == strip(text)
        body == IF stripped # <<>> /\ stripped[Len(stripped)] = Semi
                THEN strip(SubSeq(stripped, 1, Len(stripped) - 1))
                ELSE text
        kw == FirstKeyword(body)
        tables == _find_tables(body)
        allowed == policy \cup _find_cte_names(body)
        unknown == Unknown(tables, allowed)
    IN  IF text = <<>> THEN Rejected("Empty SQL.", {})
        ELSE IF ~StartsWithWord(text, "SELECT") /\ ~StartsWithWord(text, "WITH")
        THEN Rejected("Only SELECT queries are allowed.", {})
        ELSE IF InteriorSemicolon(stripped)
        THEN Rejected("Only a single SQL statement is allowed.", {})
        ELSE IF kw # 0
        THEN Rejected("Disallowed keyword found", {DISALLOWED_KEYWORDS[kw]})
        ELSE IF tables = {}
        THEN Rejected("No table referenced.", {})
        ELSE IF unknown # {}
        THEN Rejected("Query references non-allowed tables", unknown)
        ELSE Accepted(body)

----------------------------------------------------------------------------
(* healthllm/sqlgen_templates.py *)

\* str.lower() on a lexeme of a question; the other lexemes hold no upper-case letter.
lower(x) ==
    CASE x = "How" -> "how"
      [] x = "I" -> "i"
      [] x = "Top" -> "top"
      [] x = "STEPS" -> "steps"
      [] x = "Average" -> "average"
      [] OTHER -> x

\* `frag in w` for a lower-cased word w and the fragments the router looks for.
FragmentsOf(w) ==
    CASE w = "steps" -> {"steps", "step"}
      [] w = "footsteps" -> {"steps", "step"}
      [] w = "step" -> {"step"}
      [] w = "walk" -> {"walk"}
      [] w = "walked" -> {"walk"}
      [] w = "average" -> {"average"}
      [] w = "avg" -> {"avg"}
      [] w = "top" -> {"top"}
      [] w = "stop" -> {"top"}
      [] w = "day" -> {"day"}
      [] w = "days" -> {"day"}
      [] w = "today" -> {"day"}
      [] w = "weekday" -> {"weekday", "day"}
      [] w = "trend" -> {"trend"}
      [] w = "weekly" -> {"weekly"}
      [] OTHER -> {}

\* w.endswith(e) and w.startswith(b) for the words of the vocabulary.
EndsWith(w, e) ==
    w = e \/ <<w, e>> \in {<<"stop", "top">>, <<"weekday", "day">>, <<"today", "day">>}

StartsWith(w, b) ==
    w = b \/ <<w, b>> \in {<<"years", "year">>, <<"weeks", "week">>, <<"months", "month">>}

\* re.sub(r"\s+", " ", q): a run of whitespace lexemes becomes one.
RECURSIVE CollapseWs(_)
CollapseWs(q) ==
    IF Len(q) <= 1 THEN q
    ELSE IF IsWs(q[1]) /\ IsWs(q[2]) THEN CollapseWs(Tail(q))
    ELSE <<Head(q)>> \o CollapseWs(Tail(q))

_norm(q) == CollapseWs([i \in 1..Len(strip(q)) |-> lower(strip(q)[i])])

\* `frag in q` for a one-word fragment
Has(q, frag) == \E i \in 1..Len(q) : frag \in FragmentsOf(q[i])

\* `phrase in q` for a phrase of several words separated by single blanks: the first
\* word ends a word of q, the last starts one, the others are whole words.
PhraseAt(q, i, phrase) ==
    LET n == Len(phrase) IN
    /\ i + 2 * (n - 1) <= Len(q)
    /\ EndsWith(q[i], phrase[1])
    /\ StartsWith(q[i + 2 * (n - 1)], phrase[n])
    /\ \A k \in 2..(n - 1) : q[i + 2 * (k - 1)] = phrase[k]
    /\ \A k \in 1..(n - 1) : IsWs(q[i + 2 * k - 1])

HasPhrase(q, phrase) == \E i \in 1..Len(q) : PhraseAt(q, i, phrase)

\* int(x) for a lexeme of digits
NumberValue(x) == CHOOSE n \in 0..MaxNumber : ToString(n) = x

\* re.search(r"top\s+(\d+)", q): the positions where the pattern matches
TopNPositions(q) ==
    {i \in 1..Len(q) : /\ EndsWith(q[i], "top")
                       /\ SkipWs(q, i + 1) > i + 1
                       /\ SkipWs(q, i + 1) <= Len(q)
                       /\ q[SkipWs(q, i + 1)] \in NumberLexemes}

TemplateMatch(rule, text) == [ok |-> TRUE, matched_rule |-> rule, sql |-> text, error |-> ""]
NoTemplateMatchError(msg) == [ok |-> FALSE, matched_rule |-> "", sql |-> <<>>, error |-> msg]

sum_this_year_sql ==
    <<"SELECT", Ws, "COALESCE", "(", "SUM", "(", "steps", ")", ",", Ws, "0", ")", Ws,
      "AS", Ws, "answer", Ws, "FROM", Ws, "daily_steps", Ws, "WHERE", Ws, "date", Ws,
      ">", "=", Ws, "date_trunc", "(", "'", "year", "'", ",", Ws, "current_date", ")",
      Ws, "AND", Ws, "date", Ws, "<", Ws, "date_trunc", "(", "'", "year", "'", ",", Ws,
      "current_date", ")", Ws, "+", Ws, "INTERVAL", Ws, "'", "1", Ws, "year", "'">>

sum_this_month_sql ==
    <<"SELECT", Ws, "COALESCE", "(", "SUM", "(", "steps", ")", ",", Ws, "0", ")", Ws,
      "AS", Ws, "answer", Ws, "FROM", Ws, "daily_steps", Ws, "WHERE", Ws, "date", Ws,
      ">", "=", Ws, "date_trunc", "(", "'", "month", "'", ",", Ws, "current_date", ")",
      Ws, "AND", Ws, "date", Ws, "<", Ws, "date_trunc", "(", "'", "month", "'", ",", Ws,
      "current_date", ")", Ws, "+", Ws, "INTERVAL", Ws, "'", "1", Ws, "month", "'">>

avg_per_day_all_time_sql ==
    <<"SELECT", Ws, "COALESCE", "(", "AVG", "(", "steps", ")", ",", Ws, "0", ")", Ws,
      "AS", Ws, "answer", Ws, "FROM", Ws, "daily_steps">>

\* A variant of the template of the top-N rule that ends with a semicolon; C18
\* must tell it apart
top_n_days_sql_semicolon(n) ==
    <<"SELECT", Ws, "date", ",", Ws, "steps", Ws, "FROM", Ws, "daily_steps", Ws, "ORDER",
      Ws, "BY", Ws, "steps", Ws, "DESC", ",", Ws, "date", Ws, "DESC", Ws, "LIMIT", Ws,
      ToString(n), Semi>>

top_n_days_sql(n) ==
    <<"SELECT", Ws, "date", ",", Ws, "steps", Ws, "FROM", Ws, "daily_steps", Ws, "ORDER",
      Ws, "BY", Ws, "steps", Ws, "DESC", ",", Ws, "date", Ws, "DESC", Ws, "LIMIT", Ws,
      ToString(n)>>

weekday_average_sql ==
    <<"SELECT", Ws, "strftime", "(", "date", ",", Ws, "'", "%", "w", "'", ")", Ws, "AS",
      Ws, "weekday_num", ",", Ws, "AVG", "(", "steps", ")", Ws, "AS", Ws, "avg_steps",
      Ws, "FROM", Ws, "daily_steps", Ws, "GROUP", Ws, "BY", Ws, "1", Ws, "ORDER", Ws,
      "BY", Ws, "1">>

weekly_trend_last_12_weeks_sql ==
    <<"SELECT", Ws, "date_trunc", "(", "'", "week", "'", ",", Ws, "date", ")", Ws, "AS",
      Ws, "week_start", ",", Ws, "SUM", "(", "steps", ")", Ws, "AS", Ws, "steps", Ws,
      "FROM", Ws, "daily_steps", Ws, "WHERE", Ws, "date", Ws, ">", "=", Ws,
      "current_date", Ws, "-", Ws, "INTERVAL", Ws, "'", "84", Ws, "days", "'", Ws,
      "GROUP", Ws, "BY", Ws, "1", Ws, "ORDER", Ws, "BY", Ws, "1">>

\* n = min(n, 50): a variant without the lower clamp; C16 must tell it apart
ClampNUpperOnly(n) == IF n > 50 THEN 50 ELSE n

\* n = max(1, min(n, 50))
ClampN(n) == IF n > 50 THEN 50 ELSE IF n < 1 THEN 1 ELSE n

\* The router with the domain gate evaluated after the rules; C15 must tell it apart
generate_sql_from_templates_gate_last(qtext) ==
    LET q == _norm(qtext)
        tops == TopNPositions(q)
        m == CHOOSE i \in tops : \A j \in tops : i <= j
    IN  IF \/ HasPhrase(q, <<"this", "year">>)
                \/ HasPhrase(q, <<"in", "2025">>)
                \/ HasPhrase(q, <<"this", "yr">>)
        THEN TemplateMatch("sum_this_year", sum_this_year_sql)
        ELSE IF HasPhrase(q, <<"this", "month">>)
        THEN TemplateMatch("sum_this_month", sum_this_month_sql)
        ELSE IF Has(q, "average") \/ Has(q, "avg")
        THEN TemplateMatch("avg_per_day_all_time", avg_per_day_all_time_sql)
        ELSE IF tops # {}
        THEN TemplateMatch("top_n_days",
                           top_n_days_sql(ClampN(NumberValue(q[SkipWs(q, m + 1)]))))
        ELSE IF Has(q, "top") /\ Has(q, "day")
        THEN TemplateMatch("top_10_days_default", top_n_days_sql(10))
        ELSE IF Has(q, "weekday") \/ HasPhrase(q, <<"day", "of", "week">>)
        THEN TemplateMatch("weekday_average", weekday_average_sql)
        ELSE IF \/ Has(q, "trend")
                \/ Has(q, "weekly")
                \/ HasPhrase(q, <<"last", "12", "weeks">>)
        THEN TemplateMatch("weekly_trend_last_12_weeks", weekly_trend_last_12_weeks_sql)
        ELSE IF ~Has(q, "steps") /\ ~Has(q, "walk") /\ ~Has(q, "step")
        THEN NoTemplateMatchError("This v1 only supports step questions.")
        ELSE NoTemplateMatchError("No matching template rule for this question yet.")

\* The router with the top-N rule tried before the this-year rule; C17 must tell it
\* apart
generate_sql_from_templates_top_n_first(qtext) ==
    LET q == _norm(qtext)
        tops == TopNPositions(q)
        m == CHOOSE i \in tops : \A j \in tops : i <= j
    IN  IF ~Has(q, "steps") /\ ~Has(q, "walk") /\ ~Has(q, "step")
        THEN NoTemplateMatchError("This v1 only supports step questions.")
        ELSE IF tops # {}
        THEN TemplateMatch("top_n_days",
                           top_n_days_sql(ClampN(NumberValue(q[SkipWs(q, m + 1)]))))
        ELSE IF \/ HasPhrase(q, <<"this", "year">>)
                \/ HasPhrase(q, <<"in", "2025">>)
                \/ HasPhrase(q, <<"this", "yr">>)
        THEN TemplateMatch("sum_this_year", sum_this_year_sql)
        ELSE IF HasPhrase(q, <<"this", "month">>)
        THEN TemplateMatch("sum_this_month", sum_this_month_sql)
        ELSE IF Has(q, "average") \/ Has(q, "avg")
        THEN TemplateMatch("avg_per_day_all_time", avg_per_day_all_time_sql)
        ELSE IF Has(q, "top") /\ Has(q, "day")
        THEN TemplateMatch("top_10_days_default", top_n_days_sql(10))
        ELSE IF Has(q, "weekday") \/ HasPhrase(q, <<"day", "of", "week">>)
        THEN TemplateMatch("weekday_average", weekday_average_sql)
        ELSE IF \/ Has(q, "trend")
                \/ Has(q, "weekly")
                \/ HasPhrase(q, <<"last", "12", "weeks">>)
        THEN TemplateMatch("weekly_trend_last_12_weeks", weekly_trend_last_12_weeks_sql)
        ELSE NoTemplateMatchError("No matching template rule for this question yet.")

generate_sql_from_templates(qtext) ==
    LET q == _norm(qtext)
        tops == TopNPositions(q)
        m == CHOOSE i \in tops : \A j \in tops : i <= j
    IN  IF ~Has(q, "steps") /\ ~Has(q, "walk") /\ ~Has(q, "step")
        THEN NoTemplateMatchError("This v1 only supports step questions.")
        ELSE IF \/ HasPhrase(q, <<"this", "year">>)
                \/ HasPhrase(q, <<"in", "2025">>)
                \/ HasPhrase(q, <<"this", "yr">>)
        THEN TemplateMatch("sum_this_year", sum_this_year_sql)
        ELSE IF HasPhrase(q, <<"this", "month">>)
        THEN TemplateMatch("sum_this_month", sum_this_month_sql)
        ELSE IF Has(q, "average") \/ Has(q, "avg")
        THEN TemplateMatch("avg_per_day_all_time", avg_per_day_all_time_sql)
        ELSE IF tops # {}
        THEN TemplateMatch("top_n_days",
                           top_n_days_sql(ClampN(NumberValue(q[SkipWs(q, m + 1)]))))
        ELSE IF Has(q, "top") /\ Has(q, "day")
        THEN TemplateMatch("top_10_days_default", top_n_days_sql(10))
        ELSE IF Has(q, "weekday") \/ HasPhrase(q, <<"day", "of", "week">>)
        THEN TemplateMatch("weekday_average", weekday_average_sql)
        ELSE IF \/ Has(q, "trend")
                \/ Has(q, "weekly")
                \/ HasPhrase(q, <<"last", "12", "weeks">>)
        THEN TemplateMatch("weekly_trend_last_12_weeks", weekly_trend_last_12_weeks_sql)
        ELSE NoTemplateMatchError("No matching template rule for this question yet.")

----------------------------------------------------------------------------
(* healthllm/sqlgen_hf.py *)

\* os.getenv("HF_TOKEN") when the variable is not set (None)
Unset == "(unset)"

\* hf_config_from_env that takes an empty token for a credential; C5 must tell it apart
hf_config_from_env_is_not_None(token) ==
    IF token = Unset
    THEN [present |-> FALSE, token |-> "", model |-> ""]
    ELSE [present |-> TRUE, token |-> token, model |-> "defog/sqlcoder-7b-2"]

\* The HfConfig for a token, present = FALSE standing for None.  HF_MODEL is unset.
hf_config_from_env(token) ==
    IF token = Unset \/ token = ""                        \* if not token: return None
    THEN [present |-> FALSE, token |-> "", model |-> ""]
    ELSE [present |-> TRUE, token |-> token, model |-> "defog/sqlcoder-7b-2"]

\* len(candidate_urls)
NumCandidateUrls == 4

\* PROMPT_TEMPLATE.format(question=question.strip()): the fixed text before the
\* question and the fixed text after it are one lexeme each.
Prompt(q) == <<"{prompt head}">> \o strip(q) \o <<"{prompt tail}">>

_strip_code_fences(text) ==
    LET s == strip(text)
        a == IF Len(s) >= 2 /\ s[1] = Fence /\ upper(s[2]) = "SQL"
             THEN SubSeq(s, SkipWs(s, 3), Len(s)) ELSE s
        b == IF a # <<>> /\ Head(a) = Fence THEN Tail(a) ELSE a
        c == IF b # <<>> /\ b[Len(b)] = Fence THEN SubSeq(b, 1, Len(b) - 1) ELSE b
    IN  strip(c)

_extract_sql_from_generated_text(prompt, generated) ==
    LET n == Len(prompt)
        rest == IF Len(generated) >= n /\ SubSeq(generated, 1, n) = prompt
                THEN SubSeq(generated, n + 1, Len(generated))
                ELSE generated
    IN  _strip_code_fences(rest)

----------------------------------------------------------------------------
(* The store: DuckDB as healthllm/db.py and healthllm/qa.py use it *)

\* The lexemes of a statement that are code: no whitespace, nothing inside a
\* string literal (between two single quotes).
RECURSIVE CodeTokens(_, _)
CodeTokens(s, inLiteral) ==
    IF s = <<>> THEN <<>>
    ELSE IF Head(s) = "'" THEN CodeTokens(Tail(s), ~inLiteral)
    ELSE IF inLiteral \/ IsWs(Head(s)) THEN CodeTokens(Tail(s), inLiteral)
    ELSE <<Head(s)>> \o CodeTokens(Tail(s), inLiteral)

\* Whether the comma at position k of the code tokens t separates two items of a
\* FROM list: going left, FROM comes before any other clause word or parenthesis.
RECURSIVE InFromList(_, _)
InFromList(t, k) ==
    IF k < 1 THEN FALSE
    ELSE IF upper(t[k]) = "FROM" THEN TRUE
    ELSE IF upper(t[k]) \in {"SELECT", "WHERE", "GROUP", "ORDER", "LIMIT", "WITH", "(", ")"}
    THEN FALSE
    ELSE InFromList(t, k - 1)

\* The relations a SELECT statement names as its sources: what follows FROM or
\* JOIN, and every further item of a comma-separated FROM list.
TablesRead(text) ==
    LET t == CodeTokens(text, FALSE) IN
    {last_segment_lower(t[j]) : j \in {j \in 2..Len(t) :
        /\ IsIdent(t[j])
        /\ (j = Len(t) \/ t[j + 1] # "(")
        /\ \/ upper(t[j - 1]) \in {"FROM", "JOIN"}
           \/ t[j - 1] = "," /\ InFromList(t, j - 1)}}

\* The names a statement binds in its WITH clause: name AS ( at parenthesis depth 0,
\* right after WITH or after the comma that ends the CTE before it.
DeclaredCtes(text) ==
    LET t == CodeTokens(text, FALSE)
        Depth(j) == Cardinality({i \in 1..(j - 1) : t[i] = "("})
                    - Cardinality({i \in 1..(j - 1) : t[i] = ")"})
    IN  IF t = <<>> \/ upper(t[1]) # "WITH" THEN {}
        ELSE {last_segment_lower(t[j]) : j \in {j \in 2..(Len(t) - 2) :
                /\ IsIdent(t[j])
                /\ upper(t[j + 1]) = "AS"
                /\ t[j + 2] = "("
                /\ Depth(j) = 0
                /\ (j = 2 \/ t[j - 1] = ",")}}

\* The store raises a catalog error for a statement that names a relation it does
\* not hold.
StoreRejects(text, tables) == TablesRead(text) \ (tables \cup DeclaredCtes(text)) # {}

\* The statements the core sends
CreateTableIfNotExists(table) == [op |-> "CREATE TABLE IF NOT EXISTS", table |-> table, text |-> <<>>]
Query(text) == [op |-> "sql", table |-> "", text |-> text]

\* CREATE OR REPLACE TABLE in place of CREATE TABLE IF NOT EXISTS; C7 must tell it apart
CreateOrReplace(db, table) ==
    [t \in DOMAIN db \cup {table} |-> IF t = table THEN {} ELSE db[t]]

\* The effect of CREATE TABLE IF NOT EXISTS table on the database
CreateIfNotExists(db, table) ==
    [t \in DOMAIN db \cup {table} |-> IF t \in DOMAIN db THEN db[t] ELSE {}]

\* The shape of the DataFrame a statement yields: whether a column is named answer,
\* and how many rows.  A statement whose select list is one aggregate yields one
\* row; any other yields between zero and all the rows of daily_steps.
HasAnswerColumn(text) ==
    LET t == CodeTokens(text, FALSE) IN
    \E i \in 1..(Len(t) - 1) : upper(t[i]) = "AS" /\ t[i + 1] = "answer"

IsSingleAggregate(text) ==
    LET t == CodeTokens(text, FALSE) IN
    /\ \E i \in 1..Len(t) : t[i] \in {"SUM", "AVG", "COUNT", "COALESCE"}
    /\ \A i \in 1..Len(t) : upper(t[i]) # "GROUP"

RowCounts(text, db) ==
    IF IsSingleAggregate(text) THEN {1}
    ELSE 0..Cardinality(db["daily_steps"])

\* date_trunc('year', d) for the dates of the model, as the year
YearOf(d) ==
    CASE d \in {"2024-12-31"} -> 2024
      [] d \in {"2025-01-01", "2025-06-01", "2025-11-02"} -> 2025
      [] d \in {"2026-11-02"} -> 2026

\* SUM(steps) over a set of rows of daily_steps (date is the key of a row)
RECURSIVE SumSteps(_)
SumSteps(rows) ==
    IF rows = {} THEN 0
    ELSE LET r == CHOOSE x \in rows : TRUE IN r.steps + SumSteps(rows \ {r})

\* The WHERE clause of the this-year template left out: every row counts; C22 must
\* tell it apart
RowsOfAnyYear(rows, today) == rows

\* WHERE date >= date_trunc('year', current_date)
\*   AND date <  date_trunc('year', current_date) + INTERVAL '1 year'
RowsOfCurrentYear(rows, today) == {r \in rows : YearOf(r.date) = YearOf(today)}

\* The value in column answer of the first row of the output: computed for the
\* this-year template and for a plain SUM(steps) (NULL, read as NaN, over no rows);
\* some value for any other statement.
AnswerValue(text, db, today) ==
    IF ~HasAnswerColumn(text) THEN "(no column answer)"
    ELSE IF text = sum_this_year_sql
    THEN ToString(SumSteps(RowsOfCurrentYear(db["daily_steps"], today)))
    ELSE IF text = Spaced(<<"SELECT", "SUM", "(", "steps", ")", "AS", "answer", "FROM", "daily_steps">>)
    THEN IF db["daily_steps"] = {} THEN "NaN" ELSE ToString(SumSteps(db["daily_steps"]))
    ELSE "(value)"

NoDataFrame == [rows |-> 0, has_answer |-> FALSE, answer |-> "(no column answer)"]

\* A variant that takes the first row of any non-empty output with an answer column;
\* C19 must tell it apart
IsScalarFirstRow(d) == d.rows >= 1 /\ d.has_answer

\* df.shape[0] == 1 and "answer" in df.columns
IsScalar(d) == d.rows = 1 /\ d.has_answer

----------------------------------------------------------------------------
(* healthllm/qa.py: one call of answer_steps_question *)

\* The parameters of answer_steps_question (all keyword-only)
Parameters == {"question", "db_path", "force_templates"}

\* SqlPolicy(allowed_tables=("daily_steps",))
Policy == {"daily_steps"}

Tokens == {Unset, "", "hf_abc", "sk-abc"}

EmptyDb == [t \in {} |-> {}]
StepRows == {[date |-> "2025-01-01", steps |-> 150], [date |-> "2025-06-01", steps |-> 200]}
OlderRows == {[date |-> "2024-12-31", steps |-> 70]}
Dates == {"2025-11-02", "2026-11-02"}
SourceRows == {[id |-> 1, source_type |-> "dummy"]}

\* The database files a call can find: none, an empty one, one with daily_steps
\* only, one with both tables.
StoreStates ==
    {<<FALSE, EmptyDb>>, <<TRUE, EmptyDb>>}
    \cup {<<TRUE, [t \in {"daily_steps"} |-> r]>> : r \in {{}, StepRows}}
    \cup {<<TRUE, [t \in {"daily_steps", "data_source"} |->
                    IF t = "daily_steps" THEN r ELSE SourceRows]>> :
                r \in {{}, StepRows, StepRows \cup OlderRows}}

Questions ==
    { <<"How", Ws, "many", Ws, "steps", Ws, "did", Ws, "I", Ws, "walk", Ws, "this", Ws, "year", "?">>,
      <<"How", Ws, "many", Ws, "hours", Ws, "did", Ws, "I", Ws, "sleep", "?">>,
      <<"top", Ws, "7", Ws, "days">>,
      <<"Average", Ws, "this", Ws, "year">>,
      <<Ws, "Top", Ws, Ws, "500", Ws, "days", Ws, "of", Ws, "steps", Ws>>,
      <<"steps", Ws, "top", Ws, "days">>,
      <<"Average", Ws, "steps", Ws, "this", Ws, "month">>,
      <<"steps", Ws, "by", Ws, "weekday">>,
      <<"steps">>,
      <<Ws>>,
      <<>> }

\* What the text-generation endpoint can answer with a status below 400
SelectSum == Spaced(<<"SELECT", "SUM", "(", "steps", ")", "AS", "answer", "FROM", "daily_steps">>)

HfGeneratedTexts ==
    { SelectSum,
      <<Fence, "sql", Ws>> \o SelectSum \o <<Semi, Ws, Fence, Ws>>,
      SelectSum \o <<Semi>>,
      Spaced(<<"SELECT", "date", ",", "steps", "FROM", "daily_steps">>),
      Spaced(<<"SELECT", "steps", "AS", "answer", "FROM", "daily_steps">>),
      Spaced(<<"DELETE", "FROM", "daily_steps">>),
      Spaced(<<"SELECT", "*", "FROM", "users">>),
      Spaced(<<"SELECT", "*", "FROM", "daily_steps", ",", "users">>),
      <<Ws>>,
      <<>> }

Statuses == {200, 304, 401, 404, 503}

\* generate_sql_from_templates not called on its own
NoMatch == [ok |-> FALSE, matched_rule |-> "(not called)", sql |-> <<>>, error |-> ""]

NoRoute ==
    /\ r_phase = "off"
    /\ r_question = <<>>
    /\ r_match = NoMatch
    /\ r_guard = NoOutcome

\* IngestResult(days, records_seen, step_records_seen) not returned yet
NoResult == [days |-> 0, records_seen |-> 0, step_records_seen |-> 0]

\* No call of ingest_steps_export_xml
NoIngest ==
    /\ x_pc = "off"
    /\ x_records = <<>>
    /\ x_next = 1
    /\ overwrite = TRUE
    /\ totals = <<>>
    /\ records_seen = 0
    /\ step_records_seen = 0
    /\ x_df = {}
    /\ x_result = NoResult
    /\ x_error = ""

\* No session of the UI
NoUi ==
    /\ u_pc = "off"
    /\ has_data = FALSE
    /\ messages = <<>>
    /\ results = <<>>
    /\ rendered = <<>>

Init ==
    /\ HF_TOKEN \in Tokens
    /\ current_date \in Dates
    /\ \E st \in StoreStates : db_exists = st[1] /\ store = st[2]
    /\ store_before = store
    /\ pc = "idle"
    /\ kwargs = {}
    /\ question = <<>>
    /\ force_templates = FALSE
    /\ used_provider = ""
    /\ invoked = <<>>
    /\ candidate = <<>>
    /\ guard = NoOutcome
    /\ sql = <<>>
    /\ con = "none"
    /\ statements = <<>>
    /\ df = NoDataFrame
    /\ scalar = "None"
    /\ error = ""
    /\ hf_url = 1
    /\ hf_requests = 0
    /\ hf_statuses = <<>>
    /\ g_phase = "off"
    /\ g_sql = <<>>
    /\ g_policy = {}
    /\ g_first = NoOutcome
    /\ g_second = NoOutcome
    /\ NoRoute
    /\ NoIngest
    /\ NoUi

\* An exception leaves the call.
Raise(e) == pc' = "raised" /\ error' = e

\* The caller's call, the argument check, the choice of the provider (qa.py:29-49)
Call ==
    /\ pc = "idle"
    /\ \E q \in Questions, force \in BOOLEAN, kw \in {Parameters, Parameters \cup {"hf_strict"}} :
        /\ kwargs' = kw
        /\ force_templates' = force
        /\ IF ~(kw \subseteq Parameters)
           THEN \* unexpected keyword argument
                /\ Raise("TypeError")
                /\ UNCHANGED <<question, used_provider>>
           ELSE IF strip(q) = <<>>
           THEN /\ Raise("ValueError")
                /\ question' = strip(q)
                /\ UNCHANGED used_provider
           ELSE /\ question' = strip(q)
                /\ used_provider' = "templates"
                /\ error' = ""
                /\ pc' = IF ~force /\ hf_config_from_env(HF_TOKEN).present
                         THEN "generate_sql_hf"
                         ELSE "generate_sql_from_templates"
    /\ UNCHANGED <<envvars, gvars, rvars, xvars, uvars, invoked, candidate, guard, sql, con, statements, df,
                   scalar, hf_url, hf_requests, hf_statuses>>

\* The loop over candidate_urls in a variant that goes on to the next url after any
\* status from 400 on; C21 must tell it apart
HfPostNextUrlOnAnyError ==
    /\ pc = "generate_sql_hf"
    /\ \E status \in Statuses :
        /\ hf_requests' = hf_requests + 1
        /\ hf_statuses' = Append(hf_statuses, status)
        /\ invoked' = IF hf_requests = 0 THEN Append(invoked, "hf") ELSE invoked
        /\ IF status >= 400
           THEN IF hf_url < NumCandidateUrls
                THEN hf_url' = hf_url + 1 /\ UNCHANGED <<pc, error>>
                ELSE Raise("HuggingFaceSqlGenError") /\ UNCHANGED hf_url
           ELSE pc' = "resp.json" /\ UNCHANGED <<hf_url, error>>
    /\ UNCHANGED <<envvars, gvars, rvars, xvars, uvars, kwargs, question, force_templates, used_provider,
                   candidate, guard, sql, con, statements, df, scalar>>

\* generate_sql_hf: one requests.post of the loop over candidate_urls, answered
\* with a status (sqlgen_hf.py:83-95)
HfPost ==
    /\ pc = "generate_sql_hf"
    /\ \E status \in Statuses :
        /\ hf_requests' = hf_requests + 1
        /\ hf_statuses' = Append(hf_statuses, status)
        /\ invoked' = IF hf_requests = 0 THEN Append(invoked, "hf") ELSE invoked
        /\ IF status = 404
           THEN IF hf_url < NumCandidateUrls
                THEN hf_url' = hf_url + 1 /\ UNCHANGED <<pc, error>>
                ELSE Raise("HuggingFaceSqlGenError") /\ UNCHANGED hf_url
           ELSE IF status >= 400
           THEN Raise("HuggingFaceSqlGenError") /\ UNCHANGED hf_url
           ELSE pc' = "resp.json" /\ UNCHANGED <<hf_url, error>>
    /\ UNCHANGED <<envvars, gvars, rvars, xvars, uvars, kwargs, question, force_templates, used_provider,
                   candidate, guard, sql, con, statements, df, scalar>>

\* generate_sql_hf: requests.post raises (the timeout expires, the connection fails)
HfPostRaises ==
    /\ pc = "generate_sql_hf"
    /\ hf_requests' = hf_requests + 1
    /\ invoked' = IF hf_requests = 0 THEN Append(invoked, "hf") ELSE invoked
    /\ Raise("requests.RequestException")
    /\ UNCHANGED hf_statuses
    /\ UNCHANGED <<envvars, gvars, rvars, xvars, uvars, kwargs, question, force_templates, used_provider,
                   candidate, guard, sql, con, statements, df, scalar, hf_url>>

\* generate_sql_hf: the body of the response (sqlgen_hf.py:97-106), and qa.py:50-51
HfResponse ==
    /\ pc = "resp.json"
    /\ \/ Raise("JSONDecodeError") /\ UNCHANGED <<candidate, used_provider>>
       \/ Raise("HuggingFaceSqlGenError") /\ UNCHANGED <<candidate, used_provider>>
       \/ \E generated \in HfGeneratedTexts, echo \in BOOLEAN :
            /\ candidate' = _extract_sql_from_generated_text(Prompt(question),
                   IF echo THEN Prompt(question) \o generated ELSE generated)
            /\ used_provider' = "hf"
            /\ pc' = "validate_sql"
            /\ UNCHANGED error
       \/ /\ candidate' = _strip_code_fences(<<"{}">>)
          /\ used_provider' = "hf"
          /\ pc' = "validate_sql"
          /\ UNCHANGED error
    /\ UNCHANGED <<envvars, gvars, rvars, xvars, uvars, kwargs, question, force_templates, invoked, guard, sql,
                   con, statements, df, scalar, hf_url, hf_requests, hf_statuses>>

\* match = generate_sql_from_templates(question); sql = match.sql (qa.py:53-54)
Templates ==
    /\ pc = "generate_sql_from_templates"
    /\ invoked' = Append(invoked, "templates")
    /\ LET match == generate_sql_from_templates(question) IN
       IF match.ok
       THEN candidate' = match.sql /\ pc' = "validate_sql" /\ UNCHANGED error
       ELSE Raise("NoTemplateMatchError") /\ UNCHANGED candidate
    /\ UNCHANGED <<envvars, gvars, rvars, xvars, uvars, kwargs, question, force_templates, used_provider, guard,
                   sql, con, statements, df, scalar, hf_url, hf_requests, hf_statuses>>

\* qa.py:56 in a faulty variant: a rejected candidate is replaced by the template
\* provider's instead of ending the call
ValidateSqlThenRetry ==
    /\ pc = "validate_sql"
    /\ guard' = validate_sql(candidate, Policy)
    /\ IF guard'.ok
       THEN sql' = guard'.sql /\ pc' = "connect"
       ELSE pc' = "generate_sql_from_templates" /\ UNCHANGED sql
    /\ UNCHANGED <<envvars, gvars, rvars, xvars, uvars, kwargs, question, force_templates, used_provider,
                   invoked, candidate, con, statements, df, scalar, hf_url, hf_requests, hf_statuses,
                   error>>

\* sql = validate_sql(sql, SqlPolicy(allowed_tables=("daily_steps",))) (qa.py:56)
ValidateSql ==
    /\ pc = "validate_sql"
    /\ guard' = validate_sql(candidate, Policy)
    /\ IF guard'.ok
       THEN sql' = guard'.sql /\ pc' = "connect" /\ UNCHANGED error
       ELSE Raise("UnsafeSQLError") /\ UNCHANGED sql
    /\ UNCHANGED <<envvars, gvars, rvars, xvars, uvars, kwargs, question, force_templates, used_provider,
                   invoked, candidate, con, statements, df, scalar, hf_url, hf_requests, hf_statuses>>

\* con = connect(db_path) (qa.py:58, db.py:19-22): duckdb.connect creates the file
\* if it is missing, or raises (the file is locked or cannot be opened).
Connect ==
    /\ pc = "connect"
    /\ \/ /\ con' = "open"
          /\ db_exists' = TRUE
          /\ pc' = "init_schema"
          /\ UNCHANGED error
       \/ /\ Raise("duckdb.IOException")
          /\ UNCHANGED <<con, db_exists>>
    /\ UNCHANGED <<HF_TOKEN, current_date, store, store_before, gvars, rvars, xvars, uvars, kwargs, question, force_templates,
                   used_provider, invoked, candidate, guard, sql, statements, df, scalar,
                   hf_url, hf_requests, hf_statuses>>

\* init_schema(con) (qa.py:59, db.py:25-44): two statements, either of which the
\* store may fail.
init_schema ==
    /\ pc = "init_schema"
    /\ \/ /\ statements' = statements \o <<CreateTableIfNotExists("daily_steps"),
                                           CreateTableIfNotExists("data_source")>>
          /\ store' = CreateIfNotExists(CreateIfNotExists(store, "daily_steps"), "data_source")
          /\ pc' = "execute"
          /\ UNCHANGED error
       \/ /\ statements' = Append(statements, CreateTableIfNotExists("daily_steps"))
          /\ Raise("duckdb.Error")
          /\ UNCHANGED store
       \/ /\ statements' = statements \o <<CreateTableIfNotExists("daily_steps"),
                                           CreateTableIfNotExists("data_source")>>
          /\ store' = CreateIfNotExists(store, "daily_steps")
          /\ Raise("duckdb.Error")
    /\ UNCHANGED <<HF_TOKEN, current_date, db_exists, store_before, gvars, rvars, xvars, uvars, kwargs, question,
                   force_templates, used_provider, invoked, candidate, guard, sql, con, df,
                   scalar, hf_url, hf_requests, hf_statuses>>

\* The statement qa.py:60 sends, in a faulty variant: the provider's text
ExecutedTextUnvalidated == candidate

\* The statement qa.py:60 sends: sql, as validate_sql returned it
ExecutedText == sql

\* df = _execute_sql(con, sql) (qa.py:60, 24-26)
Execute ==
    /\ pc = "execute"
    /\ statements' = Append(statements, Query(ExecutedText))
    /\ IF StoreRejects(ExecutedText, DOMAIN store)
       THEN Raise("duckdb.Error") /\ UNCHANGED df
       ELSE /\ \E n \in RowCounts(ExecutedText, store) :
                df' = [rows |-> n, has_answer |-> HasAnswerColumn(ExecutedText),
                       answer |-> AnswerValue(ExecutedText, store, current_date)]
            /\ pc' = "con.close"
            /\ UNCHANGED error
    /\ UNCHANGED <<envvars, gvars, rvars, xvars, uvars, kwargs, question, force_templates, used_provider,
                   invoked, candidate, guard, sql, con, scalar, hf_url, hf_requests, hf_statuses>>

\* con.close() (qa.py:61)
Close ==
    /\ pc = "con.close"
    /\ con' = "closed"
    /\ pc' = "classify"
    /\ UNCHANGED <<envvars, gvars, rvars, xvars, uvars, kwargs, question, force_templates, used_provider,
                   invoked, candidate, guard, sql, statements, df, scalar, error, hf_url,
                   hf_requests, hf_statuses>>

\* scalar and the returned QAResult (qa.py:63-67)
Return ==
    /\ pc = "classify"
    /\ scalar' = IF IsScalar(df) THEN df.answer ELSE "None"
    /\ pc' = "returned"
    /\ UNCHANGED <<envvars, gvars, rvars, xvars, uvars, kwargs, question, force_templates, used_provider,
                   invoked, candidate, guard, sql, con, statements, df, error, hf_url,
                   hf_requests, hf_statuses>>

Next ==
    \/ Call
    \/ HfPost
    \/ HfPostRaises
    \/ HfResponse
    \/ Templates
    \/ ValidateSql
    \/ Connect
    \/ init_schema
    \/ Execute
    \/ Close
    \/ Return

Spec == Init /\ [][Next]_vars

\* No call of answer_steps_question: the state of the guard's own specification
NoCall ==
    /\ HF_TOKEN = Unset
    /\ current_date = "2025-11-02"
    /\ db_exists = FALSE
    /\ store = EmptyDb
    /\ store_before = EmptyDb
    /\ pc = "idle"
    /\ kwargs = {}
    /\ question = <<>>
    /\ force_templates = FALSE
    /\ used_provider = ""
    /\ invoked = <<>>
    /\ candidate = <<>>
    /\ guard = NoOutcome
    /\ sql = <<>>
    /\ con = "none"
    /\ statements = <<>>
    /\ df = NoDataFrame
    /\ scalar = "None"
    /\ error = ""
    /\ hf_url = 1
    /\ hf_requests = 0
    /\ hf_statuses = <<>>

----------------------------------------------------------------------------
(* Properties of one call of answer_steps_question (specification Spec) *)

Ended == pc \in {"returned", "raised"}

SchemaStatements ==
    <<CreateTableIfNotExists("daily_steps"), CreateTableIfNotExists("data_source")>>

\* C1: whichever provider produced the candidate, a query is sent to the store only
\* after validate_sql accepted that candidate in this call, and the text sent is
\* exactly the text validate_sql returned.
C1_ExecutedOnlyValidated ==
    \A i \in 1..Len(statements) :
        statements[i].op = "sql" =>
            /\ guard.ok
            /\ guard = validate_sql(candidate, Policy)
            /\ statements[i].text = guard.sql

\* C1 witness: a call of the model-backed provider has run a query whose text
\* differs from the candidate (the guard removed a trailing semicolon).
C1_Witness ==
    /\ pc = "returned"
    /\ used_provider = "hf"
    /\ candidate # sql
    /\ \E i \in 1..Len(statements) : statements[i] = Query(sql)

\* C2: once validate_sql has rejected the candidate the call has ended with
\* UnsafeSQLError, only the provider that produced the candidate was invoked, no
\* connection was opened and no statement sent.
C2_RejectionIsTerminal ==
    (guard # NoOutcome /\ ~guard.ok) =>
        /\ pc = "raised"
        /\ error = "UnsafeSQLError"
        /\ Len(invoked) = 1
        /\ con = "none"
        /\ statements = <<>>
        /\ store = store_before

\* C2 witness: the guard rejected a text of the model-backed provider.
C2_Witness ==
    /\ pc = "raised"
    /\ error = "UnsafeSQLError"
    /\ invoked = <<"hf">>
    /\ ~guard.ok

\* C3 (as claimed): when the model-backed provider fails with its generation error
\* and the caller did not ask for strict mode, the call does not end with that
\* error: the template provider is invoked next.
C3_FallbackToTemplates ==
    (error = "HuggingFaceSqlGenError" /\ "hf_strict" \notin kwargs) =>
        (pc # "raised" /\ invoked = <<"hf", "templates">>)

\* C4 (as claimed): a call that passes hf_strict is a valid invocation: it is not
\* refused for its arguments.
C4_StrictOptionAccepted ==
    "hf_strict" \in kwargs => error # "TypeError"

\* C5: at most one provider is invoked; it is the template provider when
\* force_templates is set or HF_TOKEN is unset or empty, and the model-backed
\* provider otherwise; a call that got as far as the guard has invoked one.
C5_ProviderSelection ==
    /\ Len(invoked) <= 1
    /\ invoked # <<>> =>
          invoked[1] = IF force_templates \/ HF_TOKEN \in {Unset, ""} THEN "templates" ELSE "hf"
    /\ guard # NoOutcome => (Len(invoked) = 1 /\ used_provider = invoked[1])

\* C5 witness: the template provider was used because the credential is empty.
C5_Witness ==
    /\ invoked = <<"templates">>
    /\ ~force_templates
    /\ HF_TOKEN = ""
    /\ pc = "returned"

\* C6 (as claimed): no call ends, by returning or raising, with its connection open.
C6_ConnectionClosedAtEnd ==
    Ended => con # "open"

----------------------------------------------------------------------------
(* The guard as a function of its input: validate_sql applied to texts drawn from
   a bounded set, and applied again to what it returned. *)

\* Bound: the number of tokens of an enumerated statement.
MaxTokens == 3

TokenVocab == {"SELECT", "WITH", "FROM", "daily_steps", "users", ",", Semi, "updated"}

EnumeratedStatements == UNION {[1..k -> TokenVocab] : k \in 0..MaxTokens}

\* Statements of the tests (tests/test_sql_guard.py) and of the documented cases.
CorpusStatements ==
    { <<"SELECT", "SUM", "(", "steps", ")", "AS", "answer", "FROM", "daily_steps">>,
      <<"DELETE", "FROM", "daily_steps">>,
      <<"SELECT", "*", "FROM", "users">>,
      <<"SELECT", "*", "FROM", "users", "JOIN", "accounts">>,
      <<"SELECT", "created_at", "FROM", "daily_steps">>,
      <<"select", "*", "from", "Daily_Steps", "join", "main.daily_steps">>,
      <<"SELECT", "*", "FROM", "daily_steps", ",", "users">>,
      <<"SELECT", "'", "WITH", "users", "AS", "'", "FROM", "users">>,
      <<"WITH", "recent", "AS", "(", "SELECT", "*", "FROM", "daily_steps", ")",
        "SELECT", "*", "FROM", "recent">>,
      <<"WITH", "a", "AS", "(", "SELECT", "*", "FROM", "daily_steps", ")", ",",
        "b", "AS", "(", "SELECT", "*", "FROM", "a", ")", "SELECT", "*", "FROM", "b">> }

\* What callers wrap a statement in: nothing, whitespace, a trailing semicolon, a
\* code fence with or without the sql tag.
Wrappings ==
    { <<<<>>, <<>>>>,
      <<<<Ws>>, <<Ws>>>>,
      <<<<>>, <<Semi>>>>,
      <<<<>>, <<Ws, Semi, Ws>>>>,
      <<<<Fence>>, <<Fence>>>>,
      <<<<Fence, "sql", Ws>>, <<Ws, Fence>>>>,
      <<<<Ws, Fence, "SQL", Ws>>, <<Semi, Ws, Fence, Ws>>>>,
      <<<<Fence, Ws, Fence>>, <<>>>>,
      <<<<>>, <<Ws, Fence>>>> }

\* SqlPolicy.allowed_tables, lower-cased: the orchestrator's policy and a wider one.
Policies == {{"daily_steps"}, {"daily_steps", "data_source"}}

GuardInit ==
    /\ g_phase = "input"
    /\ \E w \in Wrappings, t \in EnumeratedStatements \cup CorpusStatements :
          g_sql = w[1] \o Spaced(t) \o w[2]
    /\ g_policy \in Policies
    /\ g_first = NoOutcome
    /\ g_second = NoOutcome
    /\ NoCall
    /\ NoRoute
    /\ NoIngest
    /\ NoUi

\* out = validate_sql(sql, policy)
GuardValidate ==
    /\ g_phase = "input"
    /\ g_first' = validate_sql(g_sql, g_policy)
    /\ g_phase' = "validated"
    /\ UNCHANGED <<g_sql, g_policy, g_second, envvars, callvars, rvars, xvars, uvars>>

\* validate_sql(out, policy), for a call that returned
GuardRevalidate ==
    /\ g_phase = "validated"
    /\ g_first.ok
    /\ g_second' = validate_sql(g_first.sql, g_policy)
    /\ g_phase' = "revalidated"
    /\ UNCHANGED <<g_sql, g_policy, g_first, envvars, callvars, rvars, xvars, uvars>>

GuardNext == GuardValidate \/ GuardRevalidate

GuardSpec == GuardInit /\ [][GuardNext]_vars

----------------------------------------------------------------------------
(* Properties of validate_sql (specification GuardSpec) *)

\* C8 (as claimed): every relation an accepted statement reads is allow-listed or a
\* CTE the statement declares in its WITH clause.
C8_OnlyAllowedTablesRead ==
    (g_phase # "input" /\ g_first.ok) =>
        TablesRead(g_first.sql) \subseteq (g_policy \cup DeclaredCtes(g_first.sql))

\* The input holds a disallowed keyword as a case-insensitive substring.
HoldsDisallowedKeyword(text) ==
    \E i \in 1..Len(text) : KeywordsIn(upper(text[i])) # {}

\* C9 (as claimed): an input that holds a disallowed keyword is rejected with
\* "Disallowed keyword found".
C9_KeywordGivesDisallowedKeyword ==
    (g_phase # "input" /\ HoldsDisallowedKeyword(g_sql)) =>
        (~g_first.ok /\ g_first.kind = "Disallowed keyword found")

\* C9 (amended): an input that holds a disallowed keyword is rejected; the rejection
\* is "Only SELECT queries are allowed." when the normalized text does not start with
\* SELECT or WITH, "Only a single SQL statement is allowed." when it does and holds
\* a semicolon before its last character, and "Disallowed keyword found" otherwise.
C9_KeywordRejected ==
    (g_phase # "input" /\ HoldsDisallowedKeyword(g_sql)) =>
        LET n == _normalize_sql(g_sql) IN
        /\ ~g_first.ok
        /\ g_first.kind =
             IF ~StartsWithWord(n, "SELECT") /\ ~StartsWithWord(n, "WITH")
             THEN "Only SELECT queries are allowed."
             ELSE IF \E i \in 1..(Len(n) - 1) : n[i] = Semi
             THEN "Only a single SQL statement is allowed."
             ELSE "Disallowed keyword found"

\* C9 witness: a SELECT that holds a keyword in lower case inside an identifier was
\* rejected for the keyword.
C9_Witness ==
    /\ g_phase = "validated"
    /\ \E i \in 1..Len(g_sql) : g_sql[i] = "updated"
    /\ g_first.kind = "Disallowed keyword found"

\* C10: validating the text validate_sql returned succeeds and returns that text.
C10_Idempotent ==
    g_phase = "revalidated" => (g_second.ok /\ g_second.sql = g_first.sql)

\* C10 witness: a fenced input with a trailing semicolon was accepted, stripped of
\* both, and validated again.
C10_Witness ==
    /\ g_phase = "revalidated"
    /\ Head(lstrip(g_sql)) = Fence
    /\ \E i \in 1..Len(g_sql) : g_sql[i] = Semi
    /\ g_first.sql # g_sql

\* The text the checks after the semicolon rule look at: the normalized input
\* without its trailing semicolon.
StatementBody(text) ==
    LET n == _normalize_sql(text) IN
    IF n # <<>> /\ n[Len(n)] = Semi THEN rstrip(SubSeq(n, 1, Len(n) - 1)) ELSE n

\* C11 (as claimed): a name the statement binds in its WITH block, first or later,
\* is never reported as a non-allowed table.
C11_DeclaredCtesExempt ==
    (g_phase # "input" /\ g_first.kind = "Query references non-allowed tables") =>
        g_first.detail \cap DeclaredCtes(StatementBody(g_sql)) = {}

\* C12: for an input that passes the checks before it, validate_sql raises the
\* non-allowed-tables error exactly when some identifier after FROM or JOIN (last
\* dot segment, lower case, built-ins left out) is neither allow-listed nor a CTE
\* name, and the error names all of them.
C12_UnauthorizedTables ==
    LET body == StatementBody(g_sql)
        referenced == {last_segment_lower(raw) : raw \in TableRefMatches(body, 1)}
                          \ SQL_FUNCTIONS_AND_CONSTANTS
        unauthorized == referenced \ (g_policy \cup _find_cte_names(body))
    IN  (g_phase # "input" /\ (g_first.ok \/ g_first.kind = "Query references non-allowed tables")) =>
            /\ ~g_first.ok <=> unauthorized # {}
            /\ ~g_first.ok => g_first.detail = unauthorized

\* C12 witness: a statement that reads two tables outside the policy was rejected
\* naming both.
C12_Witness ==
    /\ g_phase = "validated"
    /\ g_first.kind = "Query references non-allowed tables"
    /\ g_first.detail = {"users", "accounts"}

\* Whether the normalized input starts with SELECT or WITH in any letter case
BeginsSelectOrWith(text) ==
    LET n == _normalize_sql(text) IN
    n # <<>> /\ Head(n) \in {"SELECT", "select", "WITH", "with"}

\* C13: for an input that starts with SELECT or WITH, a semicolon anywhere but at
\* the end of the trimmed text gives the single-statement error; a semicolon at the
\* end is removed; so no text validate_sql returns holds a semicolon.
C13_SemicolonRule ==
    LET n == _normalize_sql(g_sql) IN
    (g_phase # "input" /\ BeginsSelectOrWith(g_sql)) =>
        /\ (\E i \in 1..(Len(n) - 1) : n[i] = Semi) <=>
              (g_first.kind = "Only a single SQL statement is allowed.")
        /\ g_first.ok => \A i \in 1..Len(g_first.sql) : g_first.sql[i] # Semi
        /\ (g_first.ok /\ n[Len(n)] = Semi) =>
              g_first.sql = rstrip(SubSeq(n, 1, Len(n) - 1))

\* C13 witness: an input that ends with a semicolon was accepted without it.
C13_Witness ==
    /\ g_phase = "validated"
    /\ g_first.ok
    /\ LET n == _normalize_sql(g_sql) IN n[Len(n)] = Semi /\ Len(g_first.sql) < Len(n)

\* C14: an input whose normalized text is not empty and does not start with SELECT
\* or WITH is rejected as not a SELECT, whatever else it holds; each later error is
\* raised only for inputs that pass the checks before it, in the order empty,
\* not-a-select, single-statement, keyword, no-table, non-allowed-table.
C14_NotASelectFirst ==
    LET n == _normalize_sql(g_sql)
        body == StatementBody(g_sql)
        inner == \E i \in 1..(Len(n) - 1) : n[i] = Semi
        keyword == \E i \in 1..Len(body) : KeywordsIn(upper(body[i])) # {}
    IN  g_phase # "input" =>
            /\ (g_first.kind = "Empty SQL.") <=> (n = <<>>)
            /\ (g_first.kind = "Only SELECT queries are allowed.") <=>
                  (n # <<>> /\ ~BeginsSelectOrWith(g_sql))
            /\ (g_first.kind = "Only a single SQL statement is allowed.") <=>
                  (BeginsSelectOrWith(g_sql) /\ inner)
            /\ (g_first.kind = "Disallowed keyword found") <=>
                  (BeginsSelectOrWith(g_sql) /\ ~inner /\ keyword)
            /\ (g_first.kind \in {"No table referenced.", "Query references non-allowed tables"}) =>
                  (BeginsSelectOrWith(g_sql) /\ ~inner /\ ~keyword)
            /\ (g_first.kind = "Query references non-allowed tables") =>
                  TableRefMatches(body, 1) # {}

\* C14 witness: a text that holds a semicolon, a disallowed keyword and an unknown
\* table, and does not start with SELECT, was rejected as not a SELECT.
C14_Witness ==
    /\ g_phase = "validated"
    /\ g_first.kind = "Only SELECT queries are allowed."
    /\ \E i, j, k \in 1..Len(g_sql) :
          /\ i < Len(g_sql) /\ g_sql[i] = Semi
          /\ g_sql[j] = "updated"
          /\ g_sql[k] = "users"

----------------------------------------------------------------------------
(* Properties of the providers inside a call (specification Spec) *)

\* A lexeme of a question that holds steps, step or walk in some letter case
StepWords == {"steps", "STEPS", "footsteps", "step", "walk", "walked"}

\* C15: when the template provider is given a question that holds none of steps,
\* walk, step, the call ends with NoTemplateMatchError: no candidate exists, the
\* guard was not called, no connection was opened and no statement sent.
C15_DomainGate ==
    (invoked = <<"templates">> /\ \A i \in 1..Len(question) : question[i] \notin StepWords) =>
        /\ pc = "raised"
        /\ error = "NoTemplateMatchError"
        /\ candidate = <<>>
        /\ guard = NoOutcome
        /\ con = "none"
        /\ statements = <<>>

\* C15 witness: with force_templates set, a question about sleep ended the call with
\* NoTemplateMatchError although HF_TOKEN holds a credential.
C15_Witness ==
    /\ pc = "raised"
    /\ error = "NoTemplateMatchError"
    /\ force_templates
    /\ HF_TOKEN = "hf_abc"
    /\ \E i \in 1..Len(question) : question[i] = "sleep"

----------------------------------------------------------------------------
(* The router as a function of its input: generate_sql_from_templates applied to
   questions put together from a few phrases, and validate_sql applied to the SQL
   it returns. *)

\* Bound: the number of phrases of a question.
MaxPhrases == 3

Phrases ==
    { <<"steps">>, <<"sleep">>, <<"this", Ws, "year">>, <<"this", Ws, "month">>,
      <<"Average">>, <<"top", Ws, "7">>, <<"top", Ws, "0">>, <<"top", Ws, "500">>,
      <<"Top", Ws, Ws, ToString(MaxNumber)>>, <<"top">>, <<"days">>, <<"weekday">>,
      <<"weekly">> }

\* The phrases of f, in order, separated by one blank
RECURSIVE JoinPhrases(_)
JoinPhrases(f) ==
    IF Len(f) = 0 THEN <<>>
    ELSE IF Len(f) = 1 THEN f[1]
    ELSE f[1] \o <<Ws>> \o JoinPhrases(Tail(f))

\* validate_sql not applied on its own
NoGuardRun ==
    /\ g_phase = "off"
    /\ g_sql = <<>>
    /\ g_policy = {}
    /\ g_first = NoOutcome
    /\ g_second = NoOutcome

RouteInit ==
    /\ r_phase = "input"
    /\ \E k \in 0..MaxPhrases : \E f \in [1..k -> Phrases] : r_question = JoinPhrases(f)
    /\ r_match = NoMatch
    /\ r_guard = NoOutcome
    /\ NoCall
    /\ NoGuardRun
    /\ NoIngest
    /\ NoUi

\* match = generate_sql_from_templates(question)
RouteGenerate ==
    /\ r_phase = "input"
    /\ r_match' = generate_sql_from_templates(r_question)
    /\ r_phase' = "routed"
    /\ UNCHANGED <<r_question, r_guard, envvars, callvars, gvars, xvars, uvars>>

\* validate_sql(match.sql, SqlPolicy(allowed_tables=("daily_steps",)))
RouteValidate ==
    /\ r_phase = "routed"
    /\ r_match.ok
    /\ r_guard' = validate_sql(r_match.sql, Policy)
    /\ r_phase' = "validated"
    /\ UNCHANGED <<r_question, r_match, envvars, callvars, gvars, xvars, uvars>>

RouteNext == RouteGenerate \/ RouteValidate

RouteSpec == RouteInit /\ [][RouteNext]_vars

----------------------------------------------------------------------------
(* Properties of generate_sql_from_templates (specification RouteSpec) *)

\* The question holds steps, walk or step
PassesGate == \E i \in 1..Len(r_question) : r_question[i] \in StepWords

\* The digits after the first top of the question, as a number
ParsedN ==
    LET q == _norm(r_question)
        first == CHOOSE i \in TopNPositions(q) : \A j \in TopNPositions(q) : i <= j
    IN  NumberValue(q[SkipWs(q, first + 1)])

\* The number after LIMIT at the end of the SQL of a match
EmittedLimit ==
    IF Len(r_match.sql) >= 3 /\ r_match.sql[Len(r_match.sql) - 2] = "LIMIT"
    THEN r_match.sql[Len(r_match.sql)]
    ELSE "(no LIMIT)"

\* C16 (as claimed): the questions top 7 days, top 500 days and top 0 days select
\* the top-N rule with LIMIT 7, 50 and 1.
C16_TopNExamples ==
    r_phase # "input" =>
        /\ r_question = <<"top", Ws, "7", Ws, "days">> =>
              (r_match.matched_rule = "top_n_days" /\ EmittedLimit = "7")
        /\ r_question = <<"top", Ws, "500", Ws, "days">> =>
              (r_match.matched_rule = "top_n_days" /\ EmittedLimit = "50")
        /\ r_question = <<"top", Ws, "0", Ws, "days">> =>
              (r_match.matched_rule = "top_n_days" /\ EmittedLimit = "1")

\* C16 (amended): a question without steps, walk or step gets no rule, top N or not;
\* with steps in front, top 7 days, top 500 days and top 0 days select the top-N
\* rule with LIMIT 7, 50 and 1; whenever the top-N rule is selected for digits N the
\* LIMIT is max(1, min(N, 50)).
C16_TopNClamped ==
    r_phase # "input" =>
        /\ ~PassesGate => (~r_match.ok /\ r_match.matched_rule # "top_n_days")
        /\ r_question = <<"steps", Ws, "top", Ws, "7", Ws, "days">> =>
              (r_match.matched_rule = "top_n_days" /\ EmittedLimit = "7")
        /\ r_question = <<"steps", Ws, "top", Ws, "500", Ws, "days">> =>
              (r_match.matched_rule = "top_n_days" /\ EmittedLimit = "50")
        /\ r_question = <<"steps", Ws, "top", Ws, "0", Ws, "days">> =>
              (r_match.matched_rule = "top_n_days" /\ EmittedLimit = "1")
        /\ r_match.matched_rule = "top_n_days" =>
              /\ TopNPositions(_norm(r_question)) # {}
              /\ EmittedLimit = ToString(IF ParsedN > 50 THEN 50
                                         ELSE IF ParsedN < 1 THEN 1 ELSE ParsedN)

\* C16 witness: steps top 0 days selected the top-N rule with LIMIT 1.
C16_Witness ==
    /\ r_phase = "routed"
    /\ r_question = <<"steps", Ws, "top", Ws, "0", Ws, "days">>
    /\ r_match.matched_rule = "top_n_days"
    /\ EmittedLimit = "1"

\* The rules in their fixed order
RuleOrder ==
    <<"sum_this_year", "sum_this_month", "avg_per_day_all_time", "top_n_days",
      "top_10_days_default", "weekday_average", "weekly_trend_last_12_weeks">>

\* Whether the predicate of a rule holds of the normalized question
RuleHolds(rule) ==
    LET q == _norm(r_question) IN
    CASE rule = "sum_this_year" ->
            \/ HasPhrase(q, <<"this", "year">>)
            \/ HasPhrase(q, <<"in", "2025">>)
            \/ HasPhrase(q, <<"this", "yr">>)
      [] rule = "sum_this_month" -> HasPhrase(q, <<"this", "month">>)
      [] rule = "avg_per_day_all_time" -> Has(q, "average") \/ Has(q, "avg")
      [] rule = "top_n_days" -> TopNPositions(q) # {}
      [] rule = "top_10_days_default" -> Has(q, "top") /\ Has(q, "day")
      [] rule = "weekday_average" -> Has(q, "weekday") \/ HasPhrase(q, <<"day", "of", "week">>)
      [] rule = "weekly_trend_last_12_weeks" ->
            \/ Has(q, "trend")
            \/ Has(q, "weekly")
            \/ HasPhrase(q, <<"last", "12", "weeks">>)

\* C17: for a question that passes the gate the router returns the earliest rule,
\* in the fixed order, whose predicate holds, and fails when none holds; this year
\* together with top N gives sum_this_year; top and day without digits after top
\* gives LIMIT 10.
C17_FirstMatchWins ==
    (r_phase # "input" /\ PassesGate) =>
        LET holding == {i \in 1..Len(RuleOrder) : RuleHolds(RuleOrder[i])} IN
        /\ holding = {} => ~r_match.ok
        /\ holding # {} =>
              /\ r_match.ok
              /\ \E i \in holding : /\ \A j \in holding : i <= j
                                    /\ r_match.matched_rule = RuleOrder[i]
        /\ r_match.matched_rule = "top_10_days_default" => EmittedLimit = "10"

\* C17 witness: a question that holds this year and top 7 was routed to
\* sum_this_year.
C17_Witness ==
    /\ r_phase = "routed"
    /\ r_match.matched_rule = "sum_this_year"
    /\ RuleHolds("top_n_days")
    /\ RuleHolds("sum_this_year")

\* C18: the SQL of every match is accepted by validate_sql under the policy
\* {daily_steps} and returned unchanged.
C18_TemplatesPassGuard ==
    /\ (r_phase = "routed" /\ r_match.ok) => validate_sql(r_match.sql, Policy).ok
    /\ r_phase = "validated" => (r_guard.ok /\ r_guard.sql = r_match.sql)

\* C18 witness: the SQL of the top-N rule with a clamped N passed the guard.
C18_Witness ==
    /\ r_phase = "validated"
    /\ r_match.matched_rule = "top_n_days"
    /\ EmittedLimit = "50"
    /\ r_guard.ok

----------------------------------------------------------------------------
(* Properties of the result and of the model-backed provider (specification Spec) *)

\* C19: a returned result carries a scalar answer, the answer column of the only
\* row, exactly when the output of the execution has one row and a column named
\* answer; with no row, several rows or no such column it carries none; whichever
\* provider wrote the statement.
C19_ScalarOrTable ==
    pc = "returned" =>
        /\ (df.rows = 1 /\ df.has_answer) => (scalar = df.answer /\ scalar # "None")
        /\ (df.rows # 1 \/ ~df.has_answer) => scalar = "None"
        /\ df.has_answer <=> HasAnswerColumn(sql)
        /\ df.rows \in RowCounts(sql, store)

\* C19 witness: an output of two rows with an answer column was returned as a table.
C19_Witness ==
    /\ pc = "returned"
    /\ df.rows = 2
    /\ df.has_answer
    /\ scalar = "None"

\* C20 (as claimed): a call of the model-backed provider that fails ends with
\* HuggingFaceSqlGenError and no other error, and a candidate it returns is never
\* empty.
C20_HfFailuresAreGenerationErrors ==
    /\ (invoked = <<"hf">> /\ pc = "raised" /\ guard = NoOutcome) =>
          error = "HuggingFaceSqlGenError"
    /\ (invoked = <<"hf">> /\ pc = "validate_sql") => candidate # <<>>

\* C21 (as claimed): a call of the model-backed provider issues exactly one request:
\* never a second one, and one once the provider is done.
C21_OneRequest ==
    /\ hf_requests <= 1
    /\ (invoked = <<"hf">> /\ pc # "generate_sql_hf") => hf_requests = 1

\* C21 (amended): a call of the model-backed provider issues between one and
\* len(candidate_urls) requests, one per candidate url in order; a further request
\* follows only a response with status 404, and a response with any other status,
\* or a request that raises, is the last.
C21_OneRequestPerCandidateUrl ==
    /\ hf_requests <= NumCandidateUrls
    /\ Len(hf_statuses) <= hf_requests
    /\ hf_requests <= Len(hf_statuses) + 1
    /\ \A i \in 1..(hf_requests - 1) : hf_statuses[i] = 404
    /\ pc = "generate_sql_hf" => (hf_requests = Len(hf_statuses) /\ hf_url = hf_requests + 1)
    /\ (invoked = <<"hf">> /\ pc # "generate_sql_hf") => hf_requests >= 1
    /\ invoked # <<"hf">> => hf_requests = 0

\* C21 witness: the first candidate url answered 404, the second 200, and the call
\* returned after two requests.
C21_Witness ==
    /\ pc = "returned"
    /\ hf_requests = 2
    /\ hf_statuses = <<404, 200>>

\* The question of the end-to-end example
YearQuestion ==
    <<"How", Ws, "many", Ws, "steps", Ws, "did", Ws, "I", Ws, "walk", Ws, "this", Ws, "year", "?">>

\* The sum of the steps of the rows of daily_steps dated in the year of current_date
StepsOfThisYear ==
    SumSteps({r \in store["daily_steps"] : YearOf(r.date) = YearOf(current_date)})

\* C22 (as claimed): with force_templates set, the question about this year returns
\* the sum of the steps stored for the current year as a scalar (350 for 150 and
\* 200, 0 for an empty table), and the provider recorded is "template".
C22_YearSumProviderTemplate ==
    (pc = "returned" /\ force_templates /\ question = YearQuestion) =>
        /\ scalar = ToString(StepsOfThisYear)
        /\ used_provider = "template"

\* C22 (amended): the same, with the provider recorded as "templates".
C22_YearSum ==
    (pc = "returned" /\ force_templates /\ question = YearQuestion) =>
        /\ scalar = ToString(StepsOfThisYear)
        /\ (store["daily_steps"] = StepRows /\ YearOf(current_date) = 2025) => scalar = "350"
        /\ (\A r \in store["daily_steps"] : YearOf(r.date) = YearOf(current_date)) =>
              scalar = ToString(SumSteps(store["daily_steps"]))
        /\ store["daily_steps"] = {} => scalar = "0"
        /\ used_provider = "templates"
        /\ invoked = <<"templates">>

\* C22 witness: on a store that holds 150 and 200 for the current year and 70 for the
\* year before, the call returned 350 although HF_TOKEN holds a credential.
C22_Witness ==
    /\ pc = "returned"
    /\ force_templates
    /\ HF_TOKEN = "hf_abc"
    /\ question = YearQuestion
    /\ store["daily_steps"] = StepRows \cup OlderRows
    /\ YearOf(current_date) = 2025
    /\ scalar = "350"

----------------------------------------------------------------------------
(* healthllm/ingest_steps.py *)

HK_STEP_TYPE == "HKQuantityTypeIdentifierStepCount"

\* The attributes of a Record element.  A startDate is held as its first 10
\* characters and the rest; an attribute the element lacks is not in the domain.
StepRecord(day, rest, value) ==
    [type |-> HK_STEP_TYPE, startDate |-> <<day, rest>>, value |-> value]

RecordKinds ==
    { StepRecord("2025-01-01", " 10:00:00 -0700", "100"),
      StepRecord("2025-01-01", " 12:00:00 -0700", "50"),
      StepRecord("2025-01-02", " 09:00:00 -0700", "25"),
      [type |-> "HKQuantityTypeIdentifierHeartRate",
       startDate |-> <<"2025-01-01", " 10:00:00 -0700">>, value |-> "80"],
      StepRecord("2025-01-03", " 08:00:00 -0700", "n/a"),
      [type |-> HK_STEP_TYPE, value |-> "10"],
      StepRecord("2025-01-02", " 18:00:00 -0700", "0.5"),
      StepRecord("not a date", "", "30"),
      [type |-> HK_STEP_TYPE, startDate |-> <<"2025-01-04", " 07:00:00 -0700">>] }

MaxRecords == 3

\* attrs.get(key) is not None
HasAttr(attrs, key) == key \in DOMAIN attrs

\* not start (ingest_steps.py:60): the attribute is missing or the empty string
NotStart(attrs) == ~HasAttr(attrs, "startDate") \/ attrs.startDate = <<"", "">>

\* start[:10]
Prefix10(start) == start[1]

\* float(value), in halves; ok is FALSE where float raises ValueError
float(value) ==
    CASE value = "100" -> [ok |-> TRUE, halves |-> 200]
      [] value = "80"  -> [ok |-> TRUE, halves |-> 160]
      [] value = "50"  -> [ok |-> TRUE, halves |-> 100]
      [] value = "30"  -> [ok |-> TRUE, halves |-> 60]
      [] value = "25"  -> [ok |-> TRUE, halves |-> 50]
      [] value = "10"  -> [ok |-> TRUE, halves |-> 20]
      [] value = "0.5" -> [ok |-> TRUE, halves |-> 1]
      [] OTHER         -> [ok |-> FALSE, halves |-> 0]

\* pd.to_datetime(day, errors="coerce")
to_datetime(day) ==
    IF day \in {"2025-01-01", "2025-01-02", "2025-01-03", "2025-01-04"} THEN day ELSE "NaT"

\* Series.round() of a float held in halves: to the nearest integer, a half to the
\* even one
round(halves) ==
    IF halves % 2 = 0 THEN halves \div 2
    ELSE LET lo == (halves - 1) \div 2 IN IF lo % 2 = 0 THEN lo ELSE lo + 1

\* totals[day] = v, the earlier total dropped; C23 must tell it apart
AccumulateLast(t, day, v) ==
    [d \in DOMAIN t \cup {day} |-> IF d = day THEN v ELSE t[d]]

\* totals[day] = totals.get(day, 0.0) + v
Accumulate(t, day, v) ==
    [d \in DOMAIN t \cup {day} |->
        IF d = day THEN (IF day \in DOMAIN t THEN t[day] ELSE 0) + v ELSE t[d]]

\* With tab the rows of table
WithTable(db, table, tab) == [t \in DOMAIN db |-> IF t = table THEN tab ELSE db[t]]

\* The database files an ingestion can find: none, or one that holds data
IngestStoreStates ==
    {<<FALSE, EmptyDb>>,
     <<TRUE, [t \in {"daily_steps", "data_source"} |->
                IF t = "daily_steps" THEN StepRows \cup OlderRows ELSE SourceRows]>>}

\* answer_steps_question not called
CallIdle ==
    /\ pc = "idle"
    /\ kwargs = {}
    /\ question = <<>>
    /\ force_templates = FALSE
    /\ used_provider = ""
    /\ invoked = <<>>
    /\ candidate = <<>>
    /\ guard = NoOutcome
    /\ sql = <<>>
    /\ con = "none"
    /\ statements = <<>>
    /\ df = NoDataFrame
    /\ scalar = "None"
    /\ error = ""
    /\ hf_url = 1
    /\ hf_requests = 0
    /\ hf_statuses = <<>>

IngestInit ==
    /\ HF_TOKEN = Unset
    /\ current_date = "2025-11-02"
    /\ \E st \in IngestStoreStates : db_exists = st[1] /\ store = st[2]
    /\ store_before = store
    /\ CallIdle
    /\ NoGuardRun
    /\ NoRoute
    /\ NoUi
    /\ x_pc = "records"
    /\ \E k \in 0..MaxRecords : x_records \in [1..k -> RecordKinds]
    /\ x_next = 1
    /\ overwrite \in BOOLEAN
    /\ totals = <<>>
    /\ records_seen = 0
    /\ step_records_seen = 0
    /\ x_df = {}
    /\ x_result = NoResult
    /\ x_error = ""

\* One turn of the loop over _iter_records (ingest_steps.py:52-69)
ReadRecord ==
    /\ x_pc = "records"
    /\ x_next <= Len(x_records)
    /\ LET attrs == x_records[x_next] IN
        /\ records_seen' = records_seen + 1
        /\ IF attrs.type # HK_STEP_TYPE
           THEN UNCHANGED <<step_records_seen, totals>>
           ELSE /\ step_records_seen' = step_records_seen + 1
                /\ IF NotStart(attrs) \/ ~HasAttr(attrs, "value")
                   THEN UNCHANGED totals
                   ELSE IF ~float(attrs.value).ok
                   THEN UNCHANGED totals
                   ELSE totals' = Accumulate(totals, Prefix10(attrs.startDate),
                                             float(attrs.value).halves)
    /\ x_next' = x_next + 1
    /\ UNCHANGED <<envvars, callvars, gvars, rvars, uvars, x_pc, x_records, overwrite, x_df,
                   x_result, x_error>>

\* df, once the records are exhausted (ingest_steps.py:71-76): the days whose date
\* parses, the totals rounded
BuildFrame ==
    /\ x_pc = "records"
    /\ x_next > Len(x_records)
    /\ x_df' = {[date |-> to_datetime(d), steps |-> round(totals[d])] :
                    d \in {e \in DOMAIN totals : to_datetime(e) # "NaT"}}
    /\ x_pc' = "connect"
    /\ UNCHANGED <<envvars, callvars, gvars, rvars, uvars, x_records, x_next, overwrite, totals,
                   records_seen, step_records_seen, x_result, x_error>>

\* con = connect(db_path) (ingest_steps.py:78): creates the file if it is missing,
\* or raises
IngestConnect ==
    /\ x_pc = "connect"
    /\ \/ /\ db_exists' = TRUE
          /\ x_pc' = "init_schema"
          /\ UNCHANGED x_error
       \/ /\ x_pc' = "raised"
          /\ x_error' = "duckdb.IOException"
          /\ UNCHANGED db_exists
    /\ UNCHANGED <<HF_TOKEN, current_date, store, store_before, callvars, gvars, rvars, uvars,
                   x_records, x_next, overwrite, totals, records_seen, step_records_seen,
                   x_df, x_result>>

\* init_schema(con) (ingest_steps.py:79)
IngestInitSchema ==
    /\ x_pc = "init_schema"
    /\ store' = CreateIfNotExists(CreateIfNotExists(store, "daily_steps"), "data_source")
    /\ x_pc' = "delete"
    /\ UNCHANGED <<HF_TOKEN, current_date, db_exists, store_before, callvars, gvars, rvars,
                   uvars, x_records, x_next, overwrite, totals, records_seen,
                   step_records_seen, x_df, x_result, x_error>>

\* if overwrite: DELETE FROM daily_steps (ingest_steps.py:81-82)
DeleteDailySteps ==
    /\ x_pc = "delete"
    /\ store' = IF overwrite THEN WithTable(store, "daily_steps", {}) ELSE store
    /\ x_pc' = "insert"
    /\ UNCHANGED <<HF_TOKEN, current_date, db_exists, store_before, callvars, gvars, rvars,
                   uvars, x_records, x_next, overwrite, totals, records_seen,
                   step_records_seen, x_df, x_result, x_error>>

\* INSERT INTO daily_steps SELECT ... FROM df_daily_steps (ingest_steps.py:84-91);
\* date is the primary key, so a day the table already holds fails the statement
InsertDailySteps ==
    /\ x_pc = "insert"
    /\ IF \E new \in x_df, row \in store["daily_steps"] : new.date = row.date
       THEN /\ x_pc' = "raised"
            /\ x_error' = "duckdb.ConstraintException"
            /\ UNCHANGED store
       ELSE /\ store' = WithTable(store, "daily_steps", store["daily_steps"] \cup x_df)
            /\ x_pc' = "data_source"
            /\ UNCHANGED x_error
    /\ UNCHANGED <<HF_TOKEN, current_date, db_exists, store_before, callvars, gvars, rvars,
                   uvars, x_records, x_next, overwrite, totals, records_seen,
                   step_records_seen, x_df, x_result>>

\* DELETE FROM data_source, then the row of this import (ingest_steps.py:94-101)
SetDataSource ==
    /\ x_pc = "data_source"
    /\ store' = WithTable(store, "data_source", {[id |-> 1, source_type |-> "export_xml"]})
    /\ x_pc' = "con.close"
    /\ UNCHANGED <<HF_TOKEN, current_date, db_exists, store_before, callvars, gvars, rvars,
                   uvars, x_records, x_next, overwrite, totals, records_seen,
                   step_records_seen, x_df, x_result, x_error>>

\* con.close() and the returned IngestResult (ingest_steps.py:102-104)
IngestReturn ==
    /\ x_pc = "con.close"
    /\ x_result' = [days |-> Cardinality(x_df), records_seen |-> records_seen,
                    step_records_seen |-> step_records_seen]
    /\ x_pc' = "returned"
    /\ UNCHANGED <<envvars, callvars, gvars, rvars, uvars, x_records, x_next, overwrite, totals,
                   records_seen, step_records_seen, x_df, x_error>>

IngestNext ==
    \/ ReadRecord
    \/ BuildFrame
    \/ IngestConnect
    \/ IngestInitSchema
    \/ DeleteDailySteps
    \/ InsertDailySteps
    \/ SetDataSource
    \/ IngestReturn

IngestSpec == IngestInit /\ [][IngestNext]_vars

----------------------------------------------------------------------------
(* Properties of ingest_steps_export_xml (specification IngestSpec) *)

\* The positions of the step-count records of the export
StepCountRecords == {i \in 1..Len(x_records) : x_records[i].type = HK_STEP_TYPE}

\* Those that carry a startDate
Dated == {i \in StepCountRecords : ~NotStart(x_records[i])}

\* Those that carry a startDate and a value that reads as a number
Usable == {i \in Dated : HasAttr(x_records[i], "value") /\ float(x_records[i].value).ok}

RECURSIVE SumOfValues(_)
\* The sum, in halves, of the values of the records at the positions S
SumOfValues(S) ==
    IF S = {} THEN 0
    ELSE LET i == CHOOSE j \in S : TRUE
         IN float(x_records[i].value).halves + SumOfValues(S \ {i})

OnDay(S, d) == {i \in S : Prefix10(x_records[i].startDate) = d}

\* C23 (as claimed): after a call with overwrite=true, daily_steps holds exactly one
\* row per distinct date prefix of the step-count records, and each row's steps is
\* the sum of the values of the step-count records of that date.
C23_RowPerStepRecordDay ==
    (x_pc = "returned" /\ overwrite) =>
        /\ {row.date : row \in store["daily_steps"]} =
               {Prefix10(x_records[i].startDate) : i \in Dated}
        /\ \A row \in store["daily_steps"] :
               2 * row.steps = SumOfValues(OnDay(Usable, row.date))

\* C23: after a call with overwrite=true, daily_steps holds exactly one row per
\* distinct date prefix that parses as a date among the step-count records that
\* carry a startDate and a numeric value; each row's steps is the sum of the values
\* of those records of that date, rounded to an integer; records of another type
\* contribute nothing; the rows present before are gone; days is the number of rows
\* written, step_records_seen the number of step-count records scanned, at most
\* records_seen.
C23_RowPerUsableDay ==
    (x_pc = "returned" /\ overwrite) =>
        /\ store["daily_steps"] =
              {[date |-> d, steps |-> round(SumOfValues(OnDay(Usable, d)))] :
                  d \in {e \in {Prefix10(x_records[i].startDate) : i \in Usable} :
                            to_datetime(e) # "NaT"}}
        /\ \A a, b \in store["daily_steps"] : a.date = b.date => a = b
        /\ x_result.days = Cardinality(store["daily_steps"])
        /\ x_result.step_records_seen = Cardinality(StepCountRecords)
        /\ x_result.records_seen = Len(x_records)
        /\ x_result.step_records_seen <= x_result.records_seen

\* C23 witness: two step-count records of one day around a record of another type,
\* ingested over a table that held rows
C23_Witness ==
    /\ x_pc = "returned"
    /\ overwrite
    /\ x_records = <<StepRecord("2025-01-01", " 10:00:00 -0700", "100"),
                      [type |-> "HKQuantityTypeIdentifierHeartRate",
                       startDate |-> <<"2025-01-01", " 10:00:00 -0700">>, value |-> "80"],
                      StepRecord("2025-01-01", " 12:00:00 -0700", "50")>>
    /\ store_before # EmptyDb
    /\ store["daily_steps"] = {[date |-> "2025-01-01", steps |-> 150]}
    /\ x_result = [days |-> 1, records_seen |-> 3, step_records_seen |-> 2]

----------------------------------------------------------------------------
(* app.py: the chat history of a session *)

MaxQuestions == 3

\* What st.chat_input returns when the user submits
UiQuestions == {"How many steps did I walk this year?", "How did I sleep?"}

\* The QAResult answer_steps_question returns for a question, and None
QAResult(q) == <<"QAResult", q>>
None == <<"None">>

\* How the call at app.py:347-350 ends: answer_steps_question returns and
\* _render_result shows the result, or one of the two raises
CallOutcomes ==
    {[returned |-> TRUE, raises |-> ""], [returned |-> TRUE, raises |-> "KeyError"]}
    \cup {[returned |-> FALSE, raises |-> e] :
            e \in {"TypeError", "NoTemplateMatchError", "UnsafeSQLError"}}

\* f"Error: {error_str}"
ErrorContent(error_str) == "Error: " \o error_str

\* What one turn of the history loop shows
Shown(call, result, text, q) == [call |-> call, result |-> result, text |-> text, question |-> q]

\* The history loop without its result_idx += 1; C24 must tell it apart
SameResultIdx(result_idx) == result_idx

\* result_idx += 1 (app.py:314)
NextResultIdx(result_idx) == result_idx + 1

RECURSIVE RenderLoop(_, _, _, _)
\* The history loop from message i on (app.py:299-317); result_idx counts from 0
RenderLoop(msgs, ress, i, result_idx) ==
    IF i > Len(msgs) THEN <<>>
    ELSE LET m == msgs[i] IN
         IF m.role = "assistant" /\ result_idx < Len(ress)
         THEN LET result == ress[result_idx + 1]
                  q == IF i > 1 /\ msgs[i - 1].role = "user" THEN msgs[i - 1].content ELSE ""
                  shown == IF result # None THEN Shown("_render_result", result, "", q)
                           ELSE IF m.content # "" THEN Shown("markdown", None, m.content, "")
                           ELSE Shown("nothing", None, "", "")
              IN <<shown>> \o RenderLoop(msgs, ress, i + 1, NextResultIdx(result_idx))
         ELSE <<Shown("markdown", None, m.content, "")>>
                  \o RenderLoop(msgs, ress, i + 1, result_idx)

\* result_idx = 0 and the loop (app.py:297-317)
RenderHistory(msgs, ress) == RenderLoop(msgs, ress, 1, 0)

UiInit ==
    /\ NoCall
    /\ NoGuardRun
    /\ NoRoute
    /\ NoIngest
    /\ u_pc = "idle"
    /\ has_data \in BOOLEAN
    /\ messages = <<>>
    /\ results = <<>>
    /\ rendered = <<>>

\* A run of the script with nothing submitted: the history is shown again
UiRun ==
    /\ u_pc \in {"idle", "warned", "answered"}       \* the run before has ended
    /\ has_data' \in BOOLEAN
    /\ rendered' = RenderHistory(messages, results)
    /\ u_pc' = "idle"
    /\ UNCHANGED <<envvars, callvars, gvars, rvars, xvars, messages, results>>

\* A run with a question submitted while no data exists (app.py:334-335): a
\* warning, nothing stored
UiSubmitNoData ==
    /\ u_pc \in {"idle", "warned", "answered"}       \* the run before has ended
    /\ has_data' = FALSE
    /\ rendered' = RenderHistory(messages, results)
    /\ u_pc' = "warned"
    /\ UNCHANGED <<envvars, callvars, gvars, rvars, xvars, messages, results>>

\* A run with a question submitted while data exists, up to the call
\* (app.py:336-346)
UiAsk ==
    /\ u_pc \in {"idle", "warned", "answered"}       \* the run before has ended
    /\ Len(messages) < 2 * MaxQuestions
    /\ has_data' = TRUE
    /\ rendered' = RenderHistory(messages, results)
    /\ \E q \in UiQuestions : messages' = Append(messages, [role |-> "user", content |-> q])
    /\ u_pc' = "asking"
    /\ UNCHANGED <<envvars, callvars, gvars, rvars, xvars, results>>

\* The call and what the handler stores after it (app.py:347-445); the three
\* branches of the except clause store the same two entries
UiAnswer ==
    /\ u_pc = "asking"
    /\ \E out \in CallOutcomes :
        IF out.raises = ""
        THEN /\ messages' = Append(messages, [role |-> "assistant", content |-> ""])
             /\ results' = Append(results, QAResult(messages[Len(messages)].content))
        ELSE /\ messages' = Append(messages, [role |-> "assistant", content |-> ErrorContent(out.raises)])
             /\ results' = Append(results, None)
    /\ u_pc' = "answered"
    /\ UNCHANGED <<envvars, callvars, gvars, rvars, xvars, has_data, rendered>>

UiNext == UiRun \/ UiSubmitNoData \/ UiAsk \/ UiAnswer

UiSpec == UiInit /\ [][UiNext]_vars

----------------------------------------------------------------------------
(* Properties of the chat history (specification UiSpec) *)

Assistants(n) == {i \in 1..n : messages[i].role = "assistant"}

\* C24: the number of assistant entries of messages equals the length of results;
\* the entries alternate, a user entry then the assistant entry of the same
\* question, the k-th assistant entry standing with the k-th result (the QAResult of
\* its question and empty content on success, None and the error text on error); a
\* question submitted while no data exists stores nothing; and the history loop
\* shows the k-th assistant entry with the k-th result.
C24_ChatHistory ==
    /\ Cardinality(Assistants(Len(messages))) = Len(results)
    /\ \A i \in 1..Len(messages) :
          messages[i].role = IF i % 2 = 1 THEN "user" ELSE "assistant"
    /\ Len(messages) % 2 = IF u_pc = "asking" THEN 1 ELSE 0
    /\ \A k \in 1..Len(results) :
          IF messages[2 * k].content = ""
          THEN results[k] = QAResult(messages[2 * k - 1].content)
          ELSE results[k] = None
    /\ u_pc = "warned" => Len(rendered) = Len(messages)
    /\ Len(rendered) <= Len(messages)
    /\ \A i \in 1..Len(rendered) :
          LET k == Cardinality(Assistants(i)) IN
          IF messages[i].role = "user"
          THEN rendered[i] = Shown("markdown", None, messages[i].content, "")
          ELSE IF results[k] = None
          THEN rendered[i] = Shown("markdown", None, messages[i].content, "")
          ELSE rendered[i] = Shown("_render_result", results[k], "", messages[i - 1].content)

\* C24 witness: a question answered, then one that failed, then the history shown
\* again
C24_Witness ==
    /\ Len(results) = 2
    /\ results[1] = QAResult("How did I sleep?")
    /\ results[2] = None
    /\ Len(rendered) = 4
    /\ rendered[2].result = results[1]
    /\ rendered[4].text = ErrorContent("TypeError")

----------------------------------------------------------------------------
(* app.py: the model status of the sidebar against the provider of a call
   (specification Spec) *)

\* token.startswith(prefix), for the tokens of Tokens
TokenStartsWith(token, prefix) == <<token, prefix>> \in {<<"hf_abc", "hf_">>}

\* _get_hf_status() as (is_available, model_name), for os.getenv("HF_TOKEN") = token
_get_hf_status(token) ==
    IF token = Unset \/ token = ""                        \* if not token
    THEN [is_available |-> FALSE, model_name |-> "None"]
    ELSE IF ~TokenStartsWith(token, "hf_")
    THEN [is_available |-> FALSE, model_name |-> "None"]
    ELSE IF hf_config_from_env(token).present
    THEN [is_available |-> TRUE, model_name |-> hf_config_from_env(token).model]
    ELSE [is_available |-> FALSE, model_name |-> "None"]

\* C25 (as claimed): _get_hf_status reports the model as available if and only if a
\* call with force_templates=false uses the model-backed provider; when it reports
\* the model as not available, no request goes to the model backend.
C25_StatusAgreesWithProvider ==
    /\ (~force_templates /\ invoked # <<>>) =>
          (_get_hf_status(HF_TOKEN).is_available <=> invoked[1] = "hf")
    /\ ~_get_hf_status(HF_TOKEN).is_available => hf_requests = 0

====
